---- MODULE Spec2Model ----
(***************************************************************************)
(* TomCat intent router (tomcat/intent_router.py), alias resolver          *)
(* (tomcat/aliases.py) and the feeding / vision handlers it dispatches to. *)
(*                                                                         *)
(* Texts are TLA+ strings handled character by character (Len, SubSeq and  *)
(* \o work on strings).  Time is in seconds; dates are day ordinals with   *)
(* day 1 = Monday 2024-01-01, so date.isoformat() order is ordinal order.  *)
(* Confidences are in hundredths (0.95 is 95).                             *)
(***************************************************************************)
EXTENDS Integers, Sequences, FiniteSets, TLC

None == "<none>"

(***************************************************************************)
(* String helpers: Python str / re primitives used by the source.          *)
(***************************************************************************)
Ch(s, i) == SubSeq(s, i, i)

LowerLetters == "abcdefghijklmnopqrstuvwxyz"
UpperLetters == "ABCDEFGHIJKLMNOPQRSTUVWXYZ"
DigitChars == {"0", "1", "2", "3", "4", "5", "6", "7", "8", "9"}
LowerSet == {Ch(LowerLetters, i) : i \in 1..26}
UpperSet == {Ch(UpperLetters, i) : i \in 1..26}

\* str.lower() on one character
LowerCh(c) ==
  IF c \in UpperSet
  THEN Ch(LowerLetters, CHOOSE i \in 1..26 : Ch(UpperLetters, i) = c)
  ELSE c

\* str.upper() on one character
UpperCh(c) ==
  IF c \in LowerSet
  THEN Ch(UpperLetters, CHOOSE i \in 1..26 : Ch(LowerLetters, i) = c)
  ELSE c

RECURSIVE LowerFrom(_, _)
LowerFrom(s, i) == IF i > Len(s) THEN "" ELSE LowerCh(Ch(s, i)) \o LowerFrom(s, i + 1)

\* str.lower()
Lower(s) == LowerFrom(s, 1)

\* str.capitalize()
Capitalize(s) == IF s = "" THEN "" ELSE UpperCh(Ch(s, 1)) \o Lower(SubSeq(s, 2, Len(s)))

\* [a-z0-9]
IsAlnum(c) == c \in LowerSet \cup DigitChars
\* \w
IsWordCh(c) == c \in LowerSet \cup UpperSet \cup DigitChars \cup {"_"}
\* \s
IsSpace(c) == c \in {" ", "\t", "\n"}

RECURSIVE StripLeft(_)
StripLeft(s) == IF s # "" /\ IsSpace(Ch(s, 1)) THEN StripLeft(SubSeq(s, 2, Len(s))) ELSE s
RECURSIVE StripRight(_)
StripRight(s) ==
  IF s # "" /\ IsSpace(Ch(s, Len(s))) THEN StripRight(SubSeq(s, 1, Len(s) - 1)) ELSE s
\* str.strip()
Strip(s) == StripRight(StripLeft(s))

RECURSIVE CollapseFrom(_, _, _)
CollapseFrom(s, i, inSpace) ==
  IF i > Len(s) THEN ""
  ELSE IF IsSpace(Ch(s, i))
       THEN (IF inSpace THEN "" ELSE " ") \o CollapseFrom(s, i + 1, TRUE)
       ELSE Ch(s, i) \o CollapseFrom(s, i + 1, FALSE)
\* re.sub(r"\s+", " ", s)
CollapseWs(s) == CollapseFrom(s, 1, FALSE)

\* aliases._normalize / aliases._norm / IntentRouter._normalize_text
_normalize(s) == CollapseWs(Lower(Strip(s)))

RECURSIVE ReplaceCh(_, _, _)
\* str.replace(a, b) for a one-character a
ReplaceCh(s, a, b) ==
  IF s = "" THEN ""
  ELSE (IF Ch(s, 1) = a THEN b ELSE Ch(s, 1)) \o ReplaceCh(SubSeq(s, 2, Len(s)), a, b)

RECURSIVE KeepAlnum(_)
\* re.sub(r"[^a-z0-9]+", "", s)
KeepAlnum(s) ==
  IF s = "" THEN ""
  ELSE (IF IsAlnum(Ch(s, 1)) THEN Ch(s, 1) ELSE "") \o KeepAlnum(SubSeq(s, 2, Len(s)))

RECURSIVE SplitAlnum(_, _, _)
SplitAlnum(s, i, cur) ==
  IF i > Len(s) THEN (IF cur = "" THEN <<>> ELSE <<cur>>)
  ELSE IF IsAlnum(Ch(s, i)) THEN SplitAlnum(s, i + 1, cur \o Ch(s, i))
       ELSE (IF cur = "" THEN <<>> ELSE <<cur>>) \o SplitAlnum(s, i + 1, "")
\* aliases._words: the non-empty pieces of re.split(r"[^a-z0-9]+", _norm(s))
_words(s) == SplitAlnum(_normalize(s), 1, "")

Range(f) == {f[i] : i \in DOMAIN f}

StartsWith(s, p) == Len(p) <= Len(s) /\ SubSeq(s, 1, Len(p)) = p
EndsWith(s, p) == Len(p) <= Len(s) /\ SubSeq(s, Len(s) - Len(p) + 1, Len(s)) = p
\* p in s
Contains(s, p) == \E i \in 1..(Len(s) - Len(p) + 1) : SubSeq(s, i, i + Len(p) - 1) = p

\* \b between character k and character k+1 of s
WordBoundary(s, k) ==
  LET l == k >= 1 /\ k <= Len(s) /\ IsWordCh(Ch(s, k))
      r == k + 1 >= 1 /\ k + 1 <= Len(s) /\ IsWordCh(Ch(s, k + 1))
  IN l # r

\* the literal p occurs at position i of s with \b on both sides
WholeAt(s, p, i) ==
  /\ i >= 1 /\ i + Len(p) - 1 <= Len(s)
  /\ SubSeq(s, i, i + Len(p) - 1) = p
  /\ WordBoundary(s, i - 1)
  /\ WordBoundary(s, i + Len(p) - 1)

\* re.search(rf"\b{re.escape(p)}\b", s)
WholeWord(s, p) == p # "" /\ \E i \in 1..(Len(s) - Len(p) + 1) : WholeAt(s, p, i)

\* some literal of the set P matches as \b(P)\b
AnyWhole(s, P) == \E p \in P : WholeWord(s, p)

(***************************************************************************)
(* tomcat/aliases.py: the static vocabulary and the alias tables.          *)
(***************************************************************************)
CAT_NAMES == <<
  "Microwave", "Twix", "Ford F-150", "Eggs", "Eraser", "Snickers", "Hershey", "Pencil", "Melvin", "Alaska",
  "Laufey", "Faye", "Lionel", "Pencil 2", "Snowball", "Marley", "Bobbie", "Porkchop", "Rolo", "Citlali",
  "Paquini", "Glockenspiel", "Tlacuilo", "Garfield", "Aphrodite", "Tang", "Angel", "Friga", "Ginger",
  "Pepper", "Scraggle", "Noir", "Zee", "Oreo 2", "Stove", "Scringle", "Dingus", "Winston", "Radar",
  "Dumpster", "Gregory", "Rubber", "Bruno", "Shitbag Cuntface", "Boots", "Princess", "Nefarious", "Houdini",
  "Freya", "Thor", "Odin", "Voidling", "Piggy", "Tommy", "Callie", "Lard", "Airbus A320 Neo", "Eden",
  "Creamsicle", "Redacted", "Cassie", "Gorygreg", "Mr Stinky", "NotACat", "Ernie", "Tepi", "Toblerone",
  "Waffles", "Unnamed Noir Child", "Kinder", "Enchilada", "Robin", "Mr Sir", "Coronavirus", "Musketeer",
  "Eezard", "Ooni", "Ed Sheeran", "Leaflet", "Atzi", "Ehecatl", "Tlatecuini", "Mixtli", "Maddox",
  "Pallas", "Honda", "Bandit", "Vincente", "Petal", "Chimichanga", "Butter", "Cloudy", "Meatball", "Itztli" >>

\* CAT_NICKNAMES.get(disp, [])
CAT_NICKNAMES(disp) ==
  CASE disp = "Microwave" -> <<"Professor Sprinkles", "Buddy", "Apollo", "Mike", "Michael", "Micro">>
    [] disp = "Eraser" -> <<"Bacon", "Tuxedo">>
    [] disp = "Paquini" -> <<"Panini">>
    [] disp = "Glockenspiel" -> <<"Glock">>
    [] disp = "Garfield" -> <<"Tito FluffyButt", "Tito">>
    [] disp = "Aphrodite" -> <<"Dittie">>
    [] disp = "Stove" -> <<"Squonk">>
    [] disp = "Scringle" -> <<"Blorbo">>
    [] disp = "Rubber" -> <<"Stupid">>
    [] disp = "Nefarious" -> <<"Double Cheeseburger">>
    [] disp = "Piggy" -> <<"Piggy toes">>
    [] disp = "Eezard" -> <<"Lizard", "Anole">>
    [] disp = "Cloudy" -> <<"Cirrus">>
    [] disp = "Meatball" -> <<"Nimbus">>
    [] OTHER -> <<>>

\* the non-empty members of {base, simple, hyphens, tight}
_alias_variants(name) ==
  LET base == Lower(Strip(name))
  IN {base, CollapseWs(base), ReplaceCh(base, "-", " "), KeepAlnum(base)} \ {""}

\* one table row of _build_cat_aliases: the key and its alias strings
CatAliasRow(disp) ==
  LET nicks == CAT_NICKNAMES(disp)
      nickVals == UNION {_alias_variants(nicks[i]) : i \in DOMAIN nicks}
      tokVals == UNION {UNION {_alias_variants(tok) : tok \in Range(SplitAlnum(Lower(nicks[i]), 1, ""))} :
                        i \in DOMAIN nicks}
  IN [key |-> Lower(disp), vals |-> _alias_variants(disp) \cup nickVals \cup tokVals]

\* _CAT_ALIASES in insertion order
_CAT_ALIASES == [i \in DOMAIN CAT_NAMES |-> CatAliasRow(CAT_NAMES[i])]

\* _STATION_ALIASES in insertion order
_STATION_ALIASES == <<
  [key |-> "west hall", vals |-> {"west hall", "west", "hall"}],
  [key |-> "maintenance", vals |-> {"maintenance", "maint"}],
  [key |-> "business", vals |-> {"business", "coba"}],
  [key |-> "the greens", vals |-> {"the greens", "greens", "green", "grink", "grinks"}],
  [key |-> "hop", vals |-> {"hop", "pecan", "thwop", "thop", "heights"}],
  [key |-> "lot 50", vals |-> {"lot 50", "lot50", "l50", "lot"}],
  [key |-> "mary kay and zen", vals |-> {"mary kay and zen", "mkz", "zen", "mary kay", "mary", "kay"}],
  [key |-> "microwave", vals |-> {"microwave", "mike", "mikey", "miker", "micro", "wave", "old man",
                                  "michael", "him", "himb"}],
  [key |-> "snickers", vals |-> {"snickers", "snicks"}] >>

STOPWORDS == {"the", "a", "an", "station", "lot", "hall"}

\* _DISPLAY.get(key, key.capitalize())
_DISPLAY(key) ==
  CASE key = "west hall" -> "West Hall"
    [] key = "maintenance" -> "Maintenance"
    [] key = "business" -> "Business"
    [] key = "the greens" -> "The Greens"
    [] key = "hop" -> "HOP"
    [] key = "lot 50" -> "Lot 50"
    [] key = "mary kay and zen" -> "Mary Kay and Zen"
    [] OTHER -> IF \E i \in DOMAIN CAT_NAMES : Lower(CAT_NAMES[i]) = key
                THEN CAT_NAMES[CHOOSE i \in DOMAIN CAT_NAMES : Lower(CAT_NAMES[i]) = key]
                ELSE Capitalize(key)

\* alias_vocab()["cats"] and alias_vocab()["stations"], as sets
CatVocab == {_DISPLAY(_CAT_ALIASES[i].key) : i \in DOMAIN _CAT_ALIASES}
StationVocab == {_DISPLAY(_STATION_ALIASES[i].key) : i \in DOMAIN _STATION_ALIASES}

\* the words of all alias strings of one table row
KeyTokens(row) == UNION {Range(_words(v)) : v \in row.vals}

\* pass 1 of _resolve: index of the first row with a whole-word alias hit, 0 if none
WholeWordPass(table, text_norm) ==
  LET hit == {i \in DOMAIN table : \E v \in table[i].vals : WholeWord(text_norm, v)}
  IN IF hit = {} THEN 0 ELSE CHOOSE i \in hit : \A j \in hit : i <= j

\* pass 2 of _resolve: the rows hit by a token that is a prefix of alias words of that row only
PrefixHits(table, text_norm) ==
  LET tokens == {tok \in Range(_words(text_norm)) : Len(tok) >= 3}
      matched(tok) == {i \in DOMAIN table : \E t \in KeyTokens(table[i]) : StartsWith(t, tok)}
  IN UNION {matched(tok) : tok \in {u \in tokens : Cardinality(matched(u)) = 1}}

ResolveFirstHit(table, text) ==
  LET text_norm == _normalize(text)
      first == WholeWordPass(table, text_norm)
      hits == PrefixHits(table, text_norm)
  IN IF first # 0 THEN _DISPLAY(table[first].key)
     ELSE IF hits # {} THEN _DISPLAY(table[CHOOSE i \in hits : \A j \in hits : i <= j].key)
     ELSE None

ResolveIn(table, text) ==
  LET text_norm == _normalize(text)
      first == WholeWordPass(table, text_norm)
      hits == PrefixHits(table, text_norm)
  IN IF first # 0 THEN _DISPLAY(table[first].key)
     ELSE IF Cardinality(hits) = 1 THEN _DISPLAY(table[CHOOSE i \in hits : TRUE].key)
     ELSE None

resolve_station_or_cat(text, want) ==
  IF want = "cat" THEN ResolveIn(_CAT_ALIASES, text) ELSE ResolveIn(_STATION_ALIASES, text)

Min(a, b) == IF a <= b THEN a ELSE b
Max(a, b) == IF a >= b THEN a ELSE b

\* the prefixes t[:max(3, min(len(t), 6))] of the non-stopword words of [key] + aliases
StationPrefixes(row) ==
  LET cand_tokens == (Range(_words(row.key)) \cup KeyTokens(row)) \ STOPWORDS
  IN {SubSeq(t, 1, Min(Len(t), Max(3, Min(Len(t), 6)))) : t \in cand_tokens}

RECURSIVE Dedupe(_, _)
\* unique, order preserved
Dedupe(seq, seen) ==
  IF seq = <<>> THEN <<>>
  ELSE IF Head(seq) \in seen THEN Dedupe(Tail(seq), seen)
       ELSE <<Head(seq)>> \o Dedupe(Tail(seq), seen \cup {Head(seq)})

RECURSIVE SelectRows(_, _, _)
\* display names of the rows of table whose index is in keep, in table order
SelectRows(table, keep, i) ==
  IF i > Len(table) THEN <<>>
  ELSE (IF i \in keep THEN <<_DISPLAY(table[i].key)>> ELSE <<>>) \o SelectRows(table, keep, i + 1)

resolve_stations(text) ==
  LET t == " " \o _normalize(text) \o " "
      tab == _STATION_ALIASES
      exact == {i \in DOMAIN tab :
                  \E a \in {tab[i].key} \cup tab[i].vals :
                     _normalize(a) # "" /\ Contains(t, " " \o _normalize(a) \o " ")}
      tokens == Range(_words(text)) \ STOPWORDS
      hitsOf(i) == {tok \in tokens : \E pfx \in StationPrefixes(tab[i]) : StartsWith(tok, pfx)}
      ambiguous(i) == \E o \in DOMAIN tab :
                         o # i /\ \E tok \in hitsOf(i) : \E p \in StationPrefixes(tab[o]) : StartsWith(tok, p)
      byPrefix == {i \in DOMAIN tab : i \notin exact /\ hitsOf(i) # {} /\ ~ambiguous(i)}
  IN Dedupe(SelectRows(tab, exact, 1) \o SelectRows(tab, byPrefix, 1), {})

(***************************************************************************)
(* Calendar: datetime.date as a day ordinal, day 1 = Monday 2024-01-01.    *)
(***************************************************************************)
EpochYear == 2024
IsLeap(y) == (y % 4 = 0 /\ y % 100 # 0) \/ y % 400 = 0
DaysInMonth(y, m) ==
  IF m = 2 THEN (IF IsLeap(y) THEN 29 ELSE 28)
  ELSE IF m \in {4, 6, 9, 11} THEN 30 ELSE 31
DaysInYear(y) == IF IsLeap(y) THEN 366 ELSE 365

RECURSIVE DaysBeforeYear(_)
DaysBeforeYear(y) == IF y <= EpochYear THEN 0 ELSE DaysBeforeYear(y - 1) + DaysInYear(y - 1)
RECURSIVE DaysBeforeMonth(_, _)
DaysBeforeMonth(y, m) == IF m <= 1 THEN 0 ELSE DaysBeforeMonth(y, m - 1) + DaysInMonth(y, m - 1)

NoDate == -1
\* date(y, m, d) as an ordinal; NoDate where date() raises ValueError
MakeDate(y, m, d) ==
  IF d >= 1 /\ d <= DaysInMonth(y, m) THEN DaysBeforeYear(y) + DaysBeforeMonth(y, m) + d ELSE NoDate

RECURSIVE YearOfFrom(_, _)
YearOfFrom(ord, y) == IF ord <= DaysBeforeYear(y + 1) THEN y ELSE YearOfFrom(ord, y + 1)
YearOf(ord) == YearOfFrom(ord, EpochYear)
RECURSIVE MonthOfFrom(_, _, _)
MonthOfFrom(ord, y, m) ==
  IF ord <= DaysBeforeYear(y) + DaysBeforeMonth(y, m + 1) THEN m ELSE MonthOfFrom(ord, y, m + 1)
MonthOf(ord) == MonthOfFrom(ord, YearOf(ord), 1)
DayOf(ord) == ord - DaysBeforeYear(YearOf(ord)) - DaysBeforeMonth(YearOf(ord), MonthOf(ord))

\* date.weekday(): Monday is 0
Weekday(ord) == (ord - 1) % 7

\* WEEKDAYS[word]
WEEKDAYS(word) ==
  CASE word = "mon" -> 0 [] word = "tue" -> 1 [] word = "wed" -> 2 [] word = "thu" -> 3
    [] word = "fri" -> 4 [] word = "sat" -> 5 [] word = "sun" -> 6

(***************************************************************************)
(* IntentRouter._extract_dates and its regular expressions.                *)
(***************************************************************************)
\* _next_weekday without "always next occurrence"
_next_weekday_same_day(today, tgt) == today + ((tgt - Weekday(today) + 7) % 7)

_next_weekday(today, tgt) ==
  LET days_ahead == (tgt - Weekday(today) + 7) % 7
  IN today + (IF days_ahead = 0 THEN 7 ELSE days_ahead)

_prev_weekday_or_today(today, tgt) == today - ((Weekday(today) - tgt + 7) % 7)

_prev_weekday(today, tgt) ==
  LET days_back == (Weekday(today) - tgt + 7) % 7
  IN today - (IF days_back = 0 THEN 7 ELSE days_back)

\* the weekday alternation of both date regexes, in its written order
DayAlternatives == <<"mon", "tue", "tues", "wed", "thu", "thur", "thurs", "fri", "sat", "sun", "sunday",
                     "monday", "tuesday", "wednesday", "thursday", "friday", "saturday">>

\* first index after the whitespace run starting at p (\s* is greedy and the next atom is not a space)
RECURSIVE SkipWs(_, _)
SkipWs(s, p) == IF p <= Len(s) /\ IsSpace(Ch(s, p)) THEN SkipWs(s, p + 1) ELSE p

LitAt(s, p, lit) == p >= 1 /\ p + Len(lit) - 1 <= Len(s) /\ SubSeq(s, p, p + Len(lit) - 1) = lit

\* (mon|tue|...)\b at p: group(...)[:3] of the first alternative that matches, None if none does
DayNameAt(s, p) ==
  LET ok == {k \in DOMAIN DayAlternatives :
               LitAt(s, p, DayAlternatives[k]) /\ WordBoundary(s, p + Len(DayAlternatives[k]) - 1)}
  IN IF ok = {} THEN None
     ELSE SubSeq(DayAlternatives[CHOOSE k \in ok : \A j \in ok : k <= j], 1, 3)

\* \bon\s+(weekday)\b anchored at start position p
OnDayAt(s, p) ==
  IF WordBoundary(s, p - 1) /\ LitAt(s, p, "on") /\ SkipWs(s, p + 2) > p + 2
  THEN DayNameAt(s, SkipWs(s, p + 2)) ELSE None

\* \b(this|next)?\s*(weekday)\b anchored at start position p
BareDayAt(s, p) ==
  IF ~WordBoundary(s, p - 1) THEN None
  ELSE LET withQ == IF LitAt(s, p, "this") \/ LitAt(s, p, "next")
                    THEN DayNameAt(s, SkipWs(s, p + 4)) ELSE None
       IN IF withQ # None THEN withQ ELSE DayNameAt(s, SkipWs(s, p))

\* re.search: the capture at the leftmost start position that matches (At is OnDayAt or BareDayAt)
FirstDay(s, At(_, _)) ==
  LET starts == {p \in 1..Len(s) : At(s, p) # None}
  IN IF starts = {} THEN None ELSE At(s, CHOOSE p \in starts : \A q \in starts : p <= q)

DigitVal(c) == CHOOSE n \in 0..9 : Ch("0123456789", n + 1) = c
IsDigitAt(s, p) == p >= 1 /\ p <= Len(s) /\ Ch(s, p) \in DigitChars
\* int() of the n digits at p
IntAt(s, p, n) == IF n = 1 THEN DigitVal(Ch(s, p)) ELSE 10 * DigitVal(Ch(s, p)) + DigitVal(Ch(s, p + 1))
OrdinalSuffixAt(s, p) == \E suf \in {"st", "nd", "rd", "th"} : LitAt(s, p, suf)

\* \b(\d{1,2})(?:st|nd|rd|th)?\s*(?:to|-)\s*(\d{1,2})(?:st|nd|rd|th)?\b anchored at p, taking n1 and
\* n2 digits and the suffixes or not; the result is <<d1, d2>>, or <<>> for no match
RangeTry(s, p, n1, suf1, n2, suf2) ==
  LET a == p + n1
      b == IF suf1 THEN a + 2 ELSE a
      c == SkipWs(s, b)
      d == IF LitAt(s, c, "to") THEN c + 2 ELSE c + 1
      e == SkipWs(s, d)
      f == e + n2
      g == IF suf2 THEN f + 2 ELSE f
  IN IF /\ WordBoundary(s, p - 1)
        /\ \A k \in 0..(n1 - 1) : IsDigitAt(s, p + k)
        /\ suf1 => OrdinalSuffixAt(s, a)
        /\ LitAt(s, c, "to") \/ LitAt(s, c, "-")
        /\ \A k \in 0..(n2 - 1) : IsDigitAt(s, e + k)
        /\ suf2 => OrdinalSuffixAt(s, f)
        /\ WordBoundary(s, g - 1)
     THEN <<IntAt(s, p, n1), IntAt(s, e, n2)>> ELSE <<>>

\* the backtracking order of the greedy quantifiers: two digits before one, suffix before none
RangeOrder == << <<2, TRUE>>, <<2, FALSE>>, <<1, TRUE>>, <<1, FALSE>> >>

RangeAt(s, p) ==
  LET ok == {ij \in (1..4) \X (1..4) :
               RangeTry(s, p, RangeOrder[ij[1]][1], RangeOrder[ij[1]][2],
                        RangeOrder[ij[2]][1], RangeOrder[ij[2]][2]) # <<>>}
      best == CHOOSE ij \in ok : \A o \in ok : ij[1] < o[1] \/ (ij[1] = o[1] /\ ij[2] <= o[2])
  IN IF ok = {} THEN <<>>
     ELSE RangeTry(s, p, RangeOrder[best[1]][1], RangeOrder[best[1]][2],
                   RangeOrder[best[2]][1], RangeOrder[best[2]][2])

\* the dates of the numeric range rule
RangeDates(s, today) ==
  LET starts == {p \in 1..Len(s) : RangeAt(s, p) # <<>>}
      m2 == RangeAt(s, CHOOSE p \in starts : \A q \in starts : p <= q)
      roll == DayOf(today) >= 22
      year == IF roll /\ MonthOf(today) = 12 THEN YearOf(today) + 1 ELSE YearOf(today)
      month == IF roll THEN (IF MonthOf(today) = 12 THEN 1 ELSE MonthOf(today) + 1) ELSE MonthOf(today)
  IN IF starts = {} THEN {}
     ELSE {MakeDate(year, month, d) : d \in m2[1]..m2[2]} \ {NoDate}

RECURSIVE SortedSeq(_)
\* sorted(set)
SortedSeq(S) ==
  IF S = {} THEN <<>>
  ELSE LET lo == CHOOSE x \in S : \A y \in S : x <= y IN <<lo>> \o SortedSeq(S \ {lo})

_extract_dates(raw, today) ==
  LET text == Lower(raw)
      m_on == FirstDay(text, OnDayAt)
      m == FirstDay(text, BareDayAt)
  IN SortedSeq(
       (IF Contains(text, "today") THEN {today} ELSE {})
       \cup (IF Contains(text, "tomorrow") THEN {today + 1} ELSE {})
       \cup (IF Contains(text, "yesterday") \/ Contains(text, "last night") THEN {today - 1} ELSE {})
       \cup (IF m_on # None THEN {_prev_weekday(today, WEEKDAYS(m_on))} ELSE {})
       \cup (IF m # None THEN {_next_weekday(today, WEEKDAYS(m))} ELSE {})
       \cup RangeDates(text, today)
       \cup (IF Contains(text, "saturday") /\ Contains(text, "fed")
             THEN {_prev_weekday(today, WEEKDAYS("sat"))} ELSE {}))

(***************************************************************************)
(* Settings (tomcat/config.py) of the modelled deployment: channel 1 is    *)
(* #feeding-team, channel 2 the sandbox that is also on the allow-list,    *)
(* channel 3 an ordinary guild channel and channel 4 a direct message.     *)
(***************************************************************************)
ch_feeding_team == 1
ch_sandbox == 2
ch_general == 3
ch_dm == 4
allowed_feeding_channel_ids == {ch_feeding_team, ch_sandbox}
bot_user_id == "1341667150066225192"
cv_lookback_seconds_before == 30
cv_pending_minutes_after == 5
feed_lookback_minutes_before == 5
feed_pending_minutes_after == 5
WHO_THIS_LOOKBACK == 30
CLARIFY_TIMEOUT == 120
BUF_MAXLEN == 100
CONF_HIGH == 88
CONF_MID == 75
SecondsPerDay == 86400

(***************************************************************************)
(* The regular expressions of intent_router.py, as predicates on the       *)
(* normalised text (lower case, single spaces, stripped), where \s+ is one *)
(* space and \s* is one space or nothing.  Alternatives spelled with the   *)
(* typographic apostrophe are left out: the modelled texts are ASCII.      *)
(***************************************************************************)
Opt(lit) == {"", lit}
\* {a \o b : a \in A, b \in B}
Cat2(A, B) == {a \o b : a \in A, b \in B}
Cat3(A, B, C) == Cat2(Cat2(A, B), C)

WakeWords == {"tom cat", "tomcat", "tom-kat", "tomkat", "tom kat"}
WakeSeparators == {" ", "\t", "\n", ",", ":", "-"}

\* length of the longest match of (tom\s*cat|tomcat|tom-kat|tom\s*kat) at the start; 0 if none.
\* The alternation is ordered, but no alternative is a proper prefix of another one.
WakeLen(text) ==
  LET hit == {w \in WakeWords : StartsWith(text, w)}
  IN IF hit = {} THEN 0 ELSE Len(CHOOSE w \in hit : TRUE)

\* TOMCAT_PREFIX.search(text)
TOMCAT_PREFIX(text) == WakeLen(text) > 0

RECURSIVE SkipChars(_, _, _)
SkipChars(s, p, set) == IF p <= Len(s) /\ Ch(s, p) \in set THEN SkipChars(s, p + 1, set) ELSE p

\* TOMCAT_PREFIX.sub("", text, count=1)
StripWakePrefix(text) ==
  IF TOMCAT_PREFIX(text)
  THEN SubSeq(text, SkipChars(text, WakeLen(text) + 1, WakeSeparators), Len(text))
  ELSE text

BotMentions == {"<@" \o bot_user_id \o ">", "<@!" \o bot_user_id \o ">"}
\* BOT_MENTION_RE.search(content)
BOT_MENTION_RE(content) == \E m \in BotMentions : Contains(content, m)

RECURSIVE RemoveMentions(_, _)
\* re.sub(rf"\s*<@!?ID>\s*[:,\-]*\s*", " ", s): p is the scan position
RemoveMentions(s, p) ==
  IF p > Len(s) THEN ""
  ELSE LET q == SkipWs(s, p)
           hit == {m \in BotMentions : LitAt(s, q, m)}
           m == CHOOSE x \in hit : TRUE
           after == SkipWs(s, SkipChars(s, SkipWs(s, q + Len(m)), {":", ",", "-"}))
       IN IF hit # {} THEN " " \o RemoveMentions(s, after)
          ELSE Ch(s, p) \o RemoveMentions(s, p + 1)

\* IntentRouter._strip_wake_tokens
_strip_wake_tokens(text_norm) ==
  Strip(CollapseWs(Strip(RemoveMentions(Strip(StripWakePrefix(text_norm)), 1))))

SILENT_CMD_ON(text) == AnyWhole(text, {"silent mode on", "silentmode on"})
SILENT_CMD_OFF(text) == AnyWhole(text, {"silent mode off", "silentmode off"})
SILENT_CMD(text) == SILENT_CMD_ON(text) \/ SILENT_CMD_OFF(text)

WhoThisLiterals ==
  Cat2(Cat3(Cat3({"who's", "who is", "what's", "what is"}, {" "}, {"this", "that"}),
            Opt(" "), Opt("cat")), Opt("?"))
WHO_THIS_RE(text) ==
  \E l \in WhoThisLiterals :
     EndsWith(text, l) /\ (Len(text) = Len(l) \/ WordBoundary(text, Len(text) - Len(l)))

FEEDING_UPDATE_RE(text) == text \in {"feeding update"}
MANUAL_8PM_RE(text) == text \in {"manual 8 pm update", "manual 8pm update"}

IsDigits(s) == s # "" /\ \A i \in 1..Len(s) : Ch(s, i) \in DigitChars

\* UPDATE_PROFILE_RE: ^update\s+profile\s+(\d+)$
UPDATE_PROFILE_RE(text) ==
  StartsWith(text, "update profile ") /\ IsDigits(SubSeq(text, Len("update profile ") + 1, Len(text)))

\* CREATE_PROFILES_RE: ^create\s+profiles?\s+(\d+)(?:\s+through\s+(\d+))?$
CREATE_PROFILES_RE(text) ==
  \E head \in {"create profile ", "create profiles "} :
     /\ StartsWith(text, head)
     /\ LET rest == SubSeq(text, Len(head) + 1, Len(text))
        IN \/ IsDigits(rest)
           \/ \E k \in 1..Len(rest) :
                 /\ IsDigits(SubSeq(rest, 1, k))
                 /\ LitAt(rest, k + 1, " through ")
                 /\ IsDigits(SubSeq(rest, k + Len(" through ") + 1, Len(rest)))

UPDATE_ALL_PROFILES_RE(text) == text = "update all profiles"

FeedingCheckLiterals ==
  LET tail == Cat3(Cat2(Opt(" "), Opt("been ")), {"fed"}, Opt(" today"))
      neg == {"have", "has", "havent", "haven't", "hasnt", "hasn't"}
  IN Cat3({"who"}, {"'s", " is", " has", " have", " hasnt", " hasn't", " havent", " haven't"}, tail)
     \cup Cat3(Cat2({"which station ", "which stations "}, neg), {""}, tail)

RECURSIVE StripTrailing(_, _)
StripTrailing(s, set) ==
  IF s # "" /\ Ch(s, Len(s)) \in set THEN StripTrailing(SubSeq(s, 1, Len(s) - 1), set) ELSE s

\* FEEDING_CHECK_RE: ^(who... fed | which stations ... fed)\s*[?.!]*$
FEEDING_CHECK_RE(text) == StripRight(StripTrailing(text, {"?", ".", "!"})) \in FeedingCheckLiterals

SHOW_PAT(text) == AnyWhole(text, {"show me", "showme", "show"})
WHO_PAT(text) == AnyWhole(text, {"who is", "whos", "who s", "whois"})
IDENT_PAT(text) == AnyWhole(text, {"identify", "id", "classify", "classification"})
DETECT_PAT(text) == AnyWhole(text, {"detect"})
CROP_PAT(text) == AnyWhole(text, {"crop"})
FEED_REQUEST_RE(text) == AnyWhole(text, Cat3({"can", "could", "would"}, {" someone", " anyone"}, {" feed"}))
FEED_VERB(text) == AnyWhole(text, {"fed", "feed", "feeded", "filled", "topped", "topped off", "toppedoff"})
SUB_VERB(text) == AnyWhole(text, {"sub", "cover", "cover me", "can someone", "anyone able"})

AcceptLiterals ==
  {"sure", "i got it"}
  \cup Cat3({"i"}, Opt("'"), Cat2({"ll "}, {"cover", "take", "do it"}))
  \cup Cat2({"i can"}, {"", " cover", " take", " do it"})
  \cup Cat3(Cat3({"i"}, Opt(" "), Opt("'")), Cat2({"v", "ve"}, Opt(" ")), Cat2({"got "}, {"it", "this"}))
ACCEPT_PAT(text) == AnyWhole(text, AcceptLiterals)

(***************************************************************************)
(* Bounds of the model.                                                    *)
(***************************************************************************)
MaxMsgs == 3        \* messages a run of Spec receives
MaxTicks == 2       \* clock advances of a run
NumStartDays == 1   \* dates a run of the router can start on (day 1 is Monday 2024-01-01)
NumProbeDays == 8   \* dates the date extractor is applied on
MaxViews == 1       \* clarify prompts posted in a run
MaxDispatches == 1  \* events handed to _dispatch directly in a run

StartDays == 1..NumStartDays

(***************************************************************************)
(* Texts of the messages the model sends, and the results of the           *)
(* normaliser, the patterns, the resolvers and the date extractor for      *)
(* them, each computed once by the operator that models the function.      *)
(***************************************************************************)
MainTexts ==
  {"TomCat, identify", "", "tomcat silent mode on", "mike", "can someone cover hop tomorrow"}

ClassifyTexts ==
  {"TomCat, show me Microwave", "tomcat show twix", "TomCat, show me Microwave silent mode on",
   "tomcat show me twix, who is this", "tomcat, show me the garden", "show me twix",
   "<@1341667150066225192> show me pencil 2", "tomcat who is twix", "tomcat identify",
   "tomcat feeding update", "tomcat who has been fed?", "tomcat update all profiles",
   "fed hop and business", "Fed HOP business", "mike fed", "tomcat fed mike yesterday",
   "filled hop on saturday", "topped off greens 21st-23rd", "i fed the cats",
   "can someone feed hall?", "can someone cover mike tomorrow", "could anyone feed hop friday",
   "mike", "sure", "good morning",
   "tomcat show me i fed hop", "tomcat who is it that fed hop", "tomcat who is this",
   "tomcat show me silent mode off", "tomcat who is fed",
   "silent mode on", "identify", "who is twix", "who is this", "feeding update",
   "update all profiles", "detect", "can someone cover tomorrow",
   "can someone cover hop and business tomorrow"}


DispatchTexts == {"fed microwave", "tomcat create profiles 3 through 5", "<@1341667150066225192> update profile 7"}

\* texts of image messages that are commands themselves
PendingTexts == {"TomCat, detect"}

\* an addressed message that is a station name and nothing else
StationTexts == {"tomcat mike"}

\* the command that ends silent mode
SilentTexts == {"tomcat silent mode off"}

KnownTexts ==
  MainTexts \cup ClassifyTexts \cup DispatchTexts \cup PendingTexts \cup StationTexts \cup SilentTexts
NormMemo == [t \in KnownTexts |-> _normalize(t)]
Norm(raw) == NormMemo[raw]
KnownNorm == {NormMemo[t] : t \in KnownTexts}
WakeMemo == [t \in KnownNorm |-> _strip_wake_tokens(t)]
StripWake(text_norm) == WakeMemo[text_norm]
KnownArgs == KnownNorm \cup {WakeMemo[t] : t \in KnownNorm}
KnownDays == StartDays

\* the compiled patterns of the router, by name
Search(re, s) ==
  CASE re = "TOMCAT_PREFIX" -> TOMCAT_PREFIX(s)
    [] re = "SILENT_CMD" -> SILENT_CMD(s)
    [] re = "WHO_THIS_RE" -> WHO_THIS_RE(s)
    [] re = "FEEDING_UPDATE_RE" -> FEEDING_UPDATE_RE(s)
    [] re = "MANUAL_8PM_RE" -> MANUAL_8PM_RE(s)
    [] re = "CREATE_PROFILES_RE" -> CREATE_PROFILES_RE(s)
    [] re = "UPDATE_PROFILE_RE" -> UPDATE_PROFILE_RE(s)
    [] re = "UPDATE_ALL_PROFILES_RE" -> UPDATE_ALL_PROFILES_RE(s)
    [] re = "FEEDING_CHECK_RE" -> FEEDING_CHECK_RE(s)
    [] re = "SHOW_PAT" -> SHOW_PAT(s)
    [] re = "WHO_PAT" -> WHO_PAT(s)
    [] re = "IDENT_PAT" -> IDENT_PAT(s)
    [] re = "DETECT_PAT" -> DETECT_PAT(s)
    [] re = "CROP_PAT" -> CROP_PAT(s)
    [] re = "FEED_REQUEST_RE" -> FEED_REQUEST_RE(s)
    [] re = "FEED_VERB" -> FEED_VERB(s)
    [] re = "SUB_VERB" -> SUB_VERB(s)
    [] re = "ACCEPT_PAT" -> ACCEPT_PAT(s)
Patterns ==
  {"TOMCAT_PREFIX", "SILENT_CMD", "WHO_THIS_RE", "FEEDING_UPDATE_RE", "MANUAL_8PM_RE",
   "CREATE_PROFILES_RE", "UPDATE_PROFILE_RE", "UPDATE_ALL_PROFILES_RE", "FEEDING_CHECK_RE",
   "SHOW_PAT", "WHO_PAT", "IDENT_PAT", "DETECT_PAT", "CROP_PAT", "FEED_REQUEST_RE", "FEED_VERB",
   "SUB_VERB", "ACCEPT_PAT"}
HitsMemo == [t \in KnownArgs |-> {re \in Patterns : Search(re, t)}]
\* the patterns with re.search(s) is not None
Hits(s) == HitsMemo[s]
Hit(re, s) == re \in HitsMemo[s]

ResolveMemo ==
  [t \in KnownArgs |-> [want \in {"cat", "station"} |-> resolve_station_or_cat(t, want)]]
StationsMemo == [t \in KnownArgs |-> resolve_stations(t)]
DatesMemo == [t \in KnownArgs |-> [d \in KnownDays |-> _extract_dates(t, d)]]

Resolved(text, want) == ResolveMemo[text][want]
Stations(text) == StationsMemo[text]
Dates(text, today) == DatesMemo[text][today]

(***************************************************************************)
(* State of the bot.                                                       *)
(***************************************************************************)
VARIABLES
  day0,          \* date of the first day of the run (datetime.now().date() at time 0)
  now,           \* datetime.now(), in seconds since midnight of day0
  nticks,        \* clock advances so far
  nmsg,          \* messages received so far; the next message id is nmsg + 1
  buf,           \* IntentRouter._buf: (channel, user) -> rows, oldest first
  pending_cv,    \* IntentRouter._pending_cv
  pending_feed,  \* IntentRouter._pending_feed
  traces,        \* keys of IntentRouter._traces
  silent_mode,   \* settings.silent_mode
  nlp_loaded,    \* IntentRouter._nlp is not None
  subs,          \* rows of logs/subs/subs.jsonl
  views,         \* ClarifyView prompts that were sent
  last,          \* the operation just performed, its input, result, handler calls and log lines
  probe,         \* input and result of the pure function just applied
  tasks,         \* handle_message tasks that were suspended in an awaited vision handler
  mail           \* handlers/dues.py: _EMAIL_LOG_LOCK and the tasks that log e-mails

vars == <<day0, now, nticks, nmsg, buf, pending_cv, pending_feed, traces, silent_mode, nlp_loaded,
          subs, views, last, probe, tasks, mail>>

Channels == {ch_feeding_team, ch_sandbox, ch_general, ch_dm}
UserIds == {1, 2}
Keys == Channels \X UserIds
\* author.guild_permissions.administrator: user 1 is the administrator
IsAdmin(u) == u = 1
\* isinstance(message.channel, discord.DMChannel)
_is_dm(ch) == ch = ch_dm

\* IntentRouter._today
Today(d0, t) == d0 + (t \div SecondsPerDay)

NoPendingCv == [intent |-> None, requested |-> 0, expires |-> 0, mid |-> 0]
NoPendingFeed == [stations |-> <<>>, requested |-> 0, expires |-> 0, mid |-> 0]

\* IntentEvent; absent slots are None (names) or <<>> (lists)
Event(type, conf, m, mid, img, cat, station, stations, dates, paired) ==
  [type |-> type, conf |-> conf, ch |-> m.ch, user |-> m.user, mid |-> mid, img |-> img,
   cat |-> cat, station |-> station, stations |-> stations, dates |-> dates, paired |-> paired]
NoEvent == [type |-> None, conf |-> 0, ch |-> 0, user |-> 0, mid |-> 0, img |-> FALSE,
            cat |-> None, station |-> None, stations |-> <<>>, dates |-> <<>>, paired |-> <<>>]
NoMessage == [ch |-> 0, user |-> 0, text |-> "", img |-> FALSE, ref |-> FALSE, fz |-> None,
              nlp |-> <<"none", 0, None>>, failAt |-> 0]

(***************************************************************************)
(* Entity extraction.  The fuzzy scorer (rapidfuzz or difflib) and the     *)
(* optional zero-shot model are libraries: what they accept for a message  *)
(* is an input of the message (m.fz: the name the fuzzy step accepts, or   *)
(* None; m.nlp: <<intent, probability in hundredths, entity or None>>).    *)
(***************************************************************************)
Vocab(want) == IF want = "cat" THEN CatVocab ELSE StationVocab

\* IntentRouter._best_token_for_fuzzy(text) is not None
HasToken(text) == SplitAlnum(Lower(text), 1, "") # <<>>

\* steps 2 and 3 of _extract_best_entity: the fuzzy match, then the model
FuzzyOrModel(text, want, allow_model, m, nlpOn) ==
  IF HasToken(text) /\ m.fz \in Vocab(want) THEN m.fz
  ELSE IF allow_model /\ nlpOn /\ m.nlp[3] \in Vocab(want) THEN m.nlp[3]
  ELSE None

_extract_best_entity(text, want, allow_model, m, nlpOn) ==
  IF Resolved(text, want) # None THEN Resolved(text, want)
  ELSE FuzzyOrModel(text, want, allow_model, m, nlpOn)

\* IntentRouter._extract_all_entities(text, want="station")
_extract_all_entities(text) == Dedupe(Stations(text), {})

\* the stations Case A, Case B and the recent-mention pairing work with
StationsOrBest(text, m, nlpOn) ==
  IF _extract_all_entities(text) # <<>> THEN _extract_all_entities(text)
  ELSE IF Resolved(text, "station") # None THEN <<Resolved(text, "station")>>
  ELSE IF FuzzyOrModel(text, "station", FALSE, m, nlpOn) # None
    THEN <<FuzzyOrModel(text, "station", FALSE, m, nlpOn)>>
  ELSE <<>>

(***************************************************************************)
(* Context buffer queries.                                                 *)
(***************************************************************************)
\* newest row of the key with an image and ts >= now - within; NoRow if none
NoRow == [ts |-> 0, mid |-> 0, text |-> "", img |-> FALSE, fz |-> None]
LastImageWithin(bufv, key, t, within) ==
  LET dq == bufv[key]
      ok == {i \in DOMAIN dq : dq[i].img /\ dq[i].ts >= t - within}
  IN IF ok = {} THEN NoRow ELSE dq[CHOOSE i \in ok : \A j \in ok : i >= j]

_last_image_for_user_unwindowed(bufv, key, t, within_seconds) == LastImageWithin(bufv, key, t, t)

_last_image_for_user_seconds(bufv, key, t, within_seconds) ==
  LastImageWithin(bufv, key, t, Max(1, within_seconds))

_last_image_of_any_age(bufv, key, t, within_minutes) == LastImageWithin(bufv, key, t, t)

_last_image_for_user(bufv, key, t, within_minutes) ==
  LastImageWithin(bufv, key, t, 60 * within_minutes)

\* a scan that does not skip the buffers of other channels
_recent_sub_request_anywhere(bufv, ch) ==
  \E key \in Keys : \E i \in DOMAIN bufv[key] : Hit("SUB_VERB", bufv[key][i].text)

\* IntentRouter._recent_sub_request_in_channel
_recent_sub_request_in_channel(bufv, ch) ==
  \E key \in Keys : key[1] = ch /\ \E i \in DOMAIN bufv[key] : Hit("SUB_VERB", bufv[key][i].text)

(***************************************************************************)
(* IntentRouter._analyze_with_context.  The result records the event       *)
(* returned (or that the call raised), the pending record the call set     *)
(* (setcv: the intent, setfeed: the stations) and whether the call stored  *)
(* a decision trace under the message id.                                  *)
(***************************************************************************)
\* the channels the analysis treats as feeding channels, for an allow-list
\* and a primary channel ft
FeedIdsOf(allowed, ft) == allowed \cup {ft}

feed_ids == FeedIdsOf(allowed_feeding_channel_ids, ch_feeding_team)

\* a router that takes every message as addressed to it
AddressedAlways(m) == TRUE

\* addressed: wake word prefix, direct message, or mention of the bot
Addressed(m) ==
  Hit("TOMCAT_PREFIX", Norm(m.text)) \/ _is_dm(m.ch) \/ BOT_MENTION_RE(m.text)

Result(ev, trace) ==
  [raised |-> FALSE, ev |-> ev, setcv |-> None, setfeed |-> <<>>, trace |-> trace]
Raised == [raised |-> TRUE, ev |-> NoEvent, setcv |-> None, setfeed |-> <<>>, trace |-> FALSE]

\* the three vision commands share one shape: image now, reply, own image in
\* the lookback window, else a pending record and a none event
VisionCommand(kind, m, mid, t, bufv, replyTrace) ==
  LET pm == _last_image_for_user_seconds(bufv, <<m.ch, m.user>>, t, cv_lookback_seconds_before)
  IN IF m.img THEN Result(Event(kind, 100, m, mid, TRUE, None, None, <<>>, <<>>, <<>>), TRUE)
     ELSE IF m.ref
       THEN Result(Event(kind, 95, m, mid, FALSE, None, None, <<>>, <<>>, <<>>), replyTrace)
     ELSE IF pm # NoRow
       THEN Result(Event(kind, 95, m, mid, TRUE, None, None, <<>>, <<>>, <<pm.mid>>), TRUE)
     ELSE [Result(Event("none", 0, m, mid, FALSE, None, None, <<>>, <<>>, <<>>), TRUE)
             EXCEPT !.setcv = kind]

\* the "show me" rule emitting the event of the "who is" rule
ShowPhotoAsWhoIs(m, mid, cat) == Event("who_is", 100, m, mid, m.img, cat, None, <<>>, <<>>, <<>>)

\* the event of the "show me" rule for a resolved cat
ShowPhoto(m, mid, cat) == Event("show_photo", 100, m, mid, m.img, cat, None, <<>>, <<>>, <<>>)

\* a "show me" or "who is" whose cat falls through to the rules below
NoCatFallsThrough(m, mid) == Result(NoEvent, FALSE)

\* "no cat? low confidence; ignore": the none event the "show me" and the
\* "who is" rule return when no cat resolves
NoCatEntity(m, mid) ==
  Result(Event("none", 0, m, mid, m.img, None, None, <<>>, <<>>, <<>>), FALSE)

\* step 1 of the cascade, the rules in order.  hit: the patterns that match
\* text_wo; cat: the cat entity of text_wo; pm30: the user's last image
CommandRules(m, mid, t, bufv, hit, cat, pm30) ==
  LET E(type, conf) == Event(type, conf, m, mid, m.img, None, None, <<>>, <<>>, <<>>)
  IN IF "SILENT_CMD" \in hit THEN Result(E("silent_mode", 100), FALSE)
     ELSE IF "WHO_THIS_RE" \in hit THEN
       IF m.img \/ m.ref THEN Result(E("cv_identify", 95), TRUE)
       ELSE IF pm30 # NoRow
         THEN Result(Event("cv_identify", 95, m, mid, TRUE, None, None, <<>>, <<>>, <<pm30.mid>>), TRUE)
       ELSE [Result(Event("none", 0, m, mid, FALSE, None, None, <<>>, <<>>, <<>>), TRUE)
               EXCEPT !.setcv = "cv_identify"]
     ELSE IF "FEEDING_UPDATE_RE" \in hit THEN Result(E("feeding_status", 95), TRUE)
     ELSE IF "MANUAL_8PM_RE" \in hit THEN Result(E("manual_8pm", 99), TRUE)
     ELSE IF "CREATE_PROFILES_RE" \in hit THEN Result(E("profiles_create", 99), FALSE)
     ELSE IF "UPDATE_PROFILE_RE" \in hit THEN Result(E("profile_update_one", 99), FALSE)
     ELSE IF "UPDATE_ALL_PROFILES_RE" \in hit THEN Result(E("profiles_update_all", 99), FALSE)
     ELSE IF "FEEDING_CHECK_RE" \in hit THEN Result(E("feeding_status", 95), FALSE)
     ELSE IF "SHOW_PAT" \in hit THEN
       IF cat # None
       THEN Result(ShowPhoto(m, mid, cat), TRUE)
       ELSE NoCatEntity(m, mid)
     ELSE IF "WHO_PAT" \in hit THEN
       IF cat # None
       THEN Result(Event("who_is", 100, m, mid, m.img, cat, None, <<>>, <<>>, <<>>), TRUE)
       ELSE NoCatEntity(m, mid)
     ELSE IF "IDENT_PAT" \in hit THEN VisionCommand("cv_identify", m, mid, t, bufv, FALSE)
     ELSE IF "DETECT_PAT" \in hit THEN VisionCommand("cv_detect", m, mid, t, bufv, TRUE)
     ELSE IF "CROP_PAT" \in hit THEN VisionCommand("cv_crop", m, mid, t, bufv, TRUE)
     ELSE Result(NoEvent, FALSE)

\* step 1 of the cascade: commands of an addressed message; NoEvent when no
\* command rule takes the message
AddressedCommand(m, mid, t, bufv, nlpOn) ==
  CommandRules(m, mid, t, bufv, Hits(StripWake(Norm(m.text))),
               _extract_best_entity(StripWake(Norm(m.text)), "cat", FALSE, m, nlpOn),
               _last_image_for_user_seconds(bufv, <<m.ch, m.user>>, t, WHO_THIS_LOOKBACK))

\* confidence of a sub_request from its slots
SubConf(stations, dates) == IF stations # <<>> /\ dates # <<>> THEN 90 ELSE 75

\* Case A without the default to today
FeedDatesNoDefault(dates, today) == dates

\* the dates of a Case A feed_update: the extracted dates, else today
FeedDates(dates, today) == IF dates # <<>> THEN dates ELSE <<today>>

\* steps 2 to 4 and the default, the rules in order.  hit: the patterns that
\* match text; list: the stations of Case A and Case B; pm: the user's last
\* image; nlpStation: the station of step 4
FeedingRules(m, mid, today, bufv, nlpOn, text, hit, stations, dates, list, pm, nlpStation, addressed) ==
  LET in_feeding == m.ch \in feed_ids
      E(type, conf) == Event(type, conf, m, mid, m.img, None, None, <<>>, <<>>, <<>>)
  IN IF in_feeding /\ ("SUB_VERB" \in hit \/ "FEED_REQUEST_RE" \in hit) THEN
       \* with no station in the text the code calls _stations_from_schedule,
       \* which IntentRouter does not define: AttributeError
       IF stations = <<>> THEN Raised
       ELSE Result(Event("sub_request", SubConf(stations, dates), m, mid, m.img, None,
                         stations[1], stations, dates, <<>>), TRUE)
     ELSE IF "FEED_VERB" \in hit /\ list # <<>> THEN
       Result(Event("feed_update", 95, m, mid, m.img, None, list[1], list,
                    FeedDates(dates, today), <<>>), TRUE)
     ELSE IF list # <<>> /\ in_feeding THEN
       IF m.img
       THEN Result(Event("feed_update", 90, m, mid, TRUE, None, list[1], list, <<today>>, <<>>), FALSE)
       ELSE IF pm # NoRow
       THEN Result(Event("feed_update", 85, m, mid, TRUE, None, list[1], list, <<today>>,
                         <<pm.mid>>), FALSE)
       ELSE [Result(Event("none", 0, m, mid, FALSE, None, None, <<>>, <<>>, <<>>), TRUE)
               EXCEPT !.setfeed = list]
     ELSE IF "SUB_VERB" \in hit THEN
       IF ~in_feeding THEN Result(E("none", 0), FALSE)
       ELSE Result(Event("sub_request", SubConf(stations, dates), m, mid, m.img, None,
                         IF stations # <<>> THEN stations[1] ELSE None, <<>>, dates, <<>>), TRUE)
     ELSE IF "ACCEPT_PAT" \in hit /\ ~in_feeding THEN Result(E("none", 0), FALSE)
     ELSE IF "ACCEPT_PAT" \in hit /\ m.ref THEN Result(E("sub_accept", 90), TRUE)
     ELSE IF "ACCEPT_PAT" \in hit /\ _recent_sub_request_in_channel(bufv, m.ch)
       THEN Result(E("sub_accept", 80), TRUE)
     ELSE IF nlpOn /\ Len(text) >= 3 /\ (addressed \/ in_feeding)
             /\ m.nlp[1] \in {"feed_update", "sub_request"} /\ m.nlp[2] >= CONF_MID
             /\ m.nlp[1] = "feed_update" /\ nlpStation # None THEN
       Result(Event("feed_update", Max(m.nlp[2], 80), m, mid, m.img, None, nlpStation, <<>>,
                    <<today>>, <<>>), FALSE)
     ELSE IF nlpOn /\ Len(text) >= 3 /\ (addressed \/ in_feeding)
             /\ m.nlp[1] = "sub_request" /\ m.nlp[2] >= CONF_MID /\ in_feeding THEN
       IF nlpStation = None THEN Raised
       ELSE Result(Event("sub_request", Max(m.nlp[2], 80), m, mid, m.img, None, nlpStation,
                         <<nlpStation>>, dates, <<>>), FALSE)
     ELSE Result(E("none", 0), TRUE)

\* steps 2 to 4 and the default
FeedingFlows(m, mid, d0, t, bufv, nlpOn) ==
  FeedingRules(m, mid, Today(d0, t), bufv, nlpOn, Norm(m.text), Hits(Norm(m.text)),
               _extract_all_entities(Norm(m.text)), Dates(Norm(m.text), Today(d0, t)),
               StationsOrBest(Norm(m.text), m, nlpOn),
               _last_image_for_user(bufv, <<m.ch, m.user>>, t, feed_lookback_minutes_before),
               _extract_best_entity(Norm(m.text), "station", TRUE, m, nlpOn), Addressed(m))

\* the first rule that returns decides
FirstMatch(cmd, rest) == IF cmd.ev # NoEvent THEN cmd ELSE rest

_analyze_with_context(m, mid, d0, t, bufv, nlpOn) ==
  FirstMatch(IF Addressed(m) THEN AddressedCommand(m, mid, t, bufv, nlpOn)
             ELSE Result(NoEvent, FALSE),
             FeedingFlows(m, mid, d0, t, bufv, nlpOn))

(***************************************************************************)
(* Handlers and dispatch.  A handler call is recorded as                   *)
(* [h, ev, ch, ok]: the handler, the event (or intent data) it got, the    *)
(* channel of its ctx, and whether it returned (ok) or raised.  Which call *)
(* of a message raises is an input of the message (m.failAt, 0 for none):  *)
(* handlers send to Discord and write files, and either can fail.          *)
(***************************************************************************)
Call(h, ev, ch) == [h |-> h, ev |-> ev, ch |-> ch, ok |-> TRUE]

\* the per-station copy _dispatch builds (e2): one station, no stations list
OneStation(ev, st) == [ev EXCEPT !.station = st, !.stations = <<>>]

RECURSIVE PerStation(_, _, _, _)
PerStation(h, ev, sts, ch) ==
  IF sts = <<>> THEN <<>> ELSE <<Call(h, OneStation(ev, Head(sts)), ch)>> \o PerStation(h, ev, Tail(sts), ch)

\* feeding.handle_feed_update_event: the channel gate
\* the channel gate of handle_feed_update_event for an allow-list
GateBlocks(allowed, ch) == allowed # {} /\ ch \notin allowed

FeedBlocked(ch) == GateBlocks(allowed_feeding_channel_ids, ch)

\* a scan from the top of the file: the oldest open request of the channel
EarliestOpenSub(subsv, ch) ==
  LET open == {i \in DOMAIN subsv : subsv[i].ch = ch /\ subsv[i].status = "requested"}
  IN IF open = {} THEN 0 ELSE CHOOSE i \in open : \A j \in open : i <= j

\* feeding._accept_latest_open_sub_in_channel: index of the row it accepts, 0 if none
LatestOpenSub(subsv, ch) ==
  LET open == {i \in DOMAIN subsv : subsv[i].ch = ch /\ subsv[i].status = "requested"}
  IN IF open = {} THEN 0 ELSE CHOOSE i \in open : \A j \in open : i >= j

SubRow(kind, id, ev, status, assignee) ==
  [kind |-> kind, id |-> id, station |-> ev.station, dates |-> ev.dates, requester |-> ev.user,
   assignee |-> assignee, status |-> status, ch |-> ev.ch, mid |-> ev.mid]

\* misc.handle_profiles_create, handle_profile_update_one and
\* handle_profiles_update_all: each returns at once, writing nothing, unless
\* the author is an administrator; for an administrator the reaction and the
\* profile edits are one line named after the handler
ProfileHandlers == {"profiles_create", "profile_update_one", "profiles_update_all"}

\* what a handler that returns does to the router state S
HandlerEffect(S, c, today) ==
  IF c.h = "feed_update" THEN
    [S EXCEPT !.logs = Append(@, IF FeedBlocked(c.ch) THEN "feed_update_ignored" ELSE "feed_update")]
  ELSE IF c.h = "sub_request" THEN
    [S EXCEPT !.subs = Append(@, SubRow("sub_request", c.ev.mid, c.ev, "requested", 0)),
              !.logs = Append(@, "sub_request")]
  ELSE IF c.h = "sub_accept" THEN
    LET i == LatestOpenSub(S.subs, c.ev.ch)
    IN IF i = 0 THEN [S EXCEPT !.logs = Append(@, "sub_accept:no_open_request")]
       ELSE [S EXCEPT !.subs = Append([@ EXCEPT ![i].status = "accepted", ![i].assignee = c.ev.user,
                                                ![i].dates = IF @ = <<>> THEN <<today>> ELSE @],
                                      SubRow("sub_accept", S.subs[i].id, c.ev, "", c.ev.user)),
                    !.logs = Append(@, "sub_accept:ok")]
  ELSE IF c.h \in ProfileHandlers THEN
    IF IsAdmin(c.ev.user) THEN [S EXCEPT !.logs = Append(@, c.h)] ELSE S
  ELSE S

RECURSIVE RunCalls(_, _, _, _)
\* await the calls of plan in order; the failAt-th call of the message raises
RunCalls(S, plan, failAt, today) ==
  IF plan = <<>> THEN S
  ELSE IF Len(S.calls) + 1 = failAt
    THEN [S EXCEPT !.calls = Append(@, [Head(plan) EXCEPT !.ok = FALSE]), !.raised = TRUE]
  ELSE RunCalls(HandlerEffect([S EXCEPT !.calls = Append(@, Head(plan))], Head(plan), today),
                Tail(plan), failAt, today)

\* position of the leftmost whole-word match of a literal of P in s, 0 if none
FirstWhole(s, P) ==
  LET hits == {i \in 1..Len(s) : \E p \in P : WholeAt(s, p, i)}
  IN IF hits = {} THEN 0 ELSE CHOOSE i \in hits : \A j \in hits : i <= j

\* the group SILENT_CMD.search captures in _dispatch: the leftmost match decides
SilentOn(raw) ==
  LET s == StripWakePrefix(Norm(raw))
      on == FirstWhole(s, {"silent mode on", "silentmode on"})
      off == FirstWhole(s, {"silent mode off", "silentmode off"})
  IN on > 0 /\ (off = 0 \/ on < off)

\* the text _dispatch matches the profile commands against
ProfileText(raw) == Strip(StripWakePrefix(Norm(raw)))

\* settings.admin_ids
admin_ids == {}

\* the handler calls of IntentRouter._dispatch(event, message, ctx), in order
DispatchPlan(ev, m) ==
  IF ev.type = "show_photo" /\ ev.cat # None THEN <<Call("cat_photo", ev, m.ch)>>
  ELSE IF ev.type = "who_is" /\ ev.cat # None THEN <<Call("cat_show", ev, m.ch)>>
  ELSE IF ev.type = "cv_identify" THEN <<Call("cv_identify", ev, m.ch)>>
  ELSE IF ev.type = "sub_request" THEN
    IF Len(ev.stations) > 1 THEN PerStation("sub_request", ev, ev.stations, m.ch)
    ELSE <<Call("sub_request", ev, m.ch)>>
  ELSE IF ev.type = "sub_accept" THEN <<Call("sub_accept", ev, m.ch)>>
  ELSE IF ev.type = "feed_update" THEN
    IF Len(ev.stations) > 1 THEN PerStation("feed_update", ev, ev.stations, m.ch)
    ELSE IF ev.station # None THEN <<Call("feed_update", ev, m.ch)>>
    ELSE <<>>
  ELSE IF ev.type = "feeding_status" THEN <<Call("feeding_inquiry", ev, m.ch)>>
  ELSE IF ev.type = "cv_detect" THEN <<Call("cv_detect", ev, m.ch)>>
  ELSE IF ev.type = "cv_crop" THEN <<Call("cv_crop", ev, m.ch)>>
  ELSE IF ev.type = "profiles_create" /\ Hit("CREATE_PROFILES_RE", ProfileText(m.text))
    THEN <<Call("profiles_create", ev, m.ch)>>
  ELSE IF ev.type = "profile_update_one" /\ Hit("UPDATE_PROFILE_RE", ProfileText(m.text))
    THEN <<Call("profile_update_one", ev, m.ch)>>
  ELSE IF ev.type = "profiles_update_all" THEN <<Call("profiles_update_all", ev, m.ch)>>
  ELSE IF ev.type = "manual_8pm" /\ (m.user \in admin_ids \/ IsAdmin(m.user))
    THEN <<Call("manual_8pm_preview", ev, m.ch)>>
  ELSE <<>>

\* IntentRouter._dispatch on router state S
_dispatch(S, ev, m, today) ==
  IF ev.type = "silent_mode" THEN
    IF IsAdmin(m.user)
    THEN [S EXCEPT !.silent = SilentOn(m.text), !.logs = Append(@, "silent_mode")]
    ELSE [S EXCEPT !.logs = Append(@, "silent_mode_denied")]
  ELSE IF ev.type = "manual_8pm" /\ ~(m.user \in admin_ids \/ IsAdmin(m.user))
    THEN [S EXCEPT !.logs = Append(@, "manual_8pm_denied")]
  ELSE RunCalls(S, DispatchPlan(ev, m), m.failAt, today)

(***************************************************************************)
(* IntentRouter.handle_message.  S is the router state the call works on:  *)
(* the maps, the handler calls made so far, the log lines written, the     *)
(* event analysis returned and whether an exception is propagating.        *)
(***************************************************************************)
RouterState ==
  [buf |-> buf, pcv |-> pending_cv, pfeed |-> pending_feed, traces |-> traces,
   silent |-> silent_mode, subs |-> subs, calls |-> <<>>, logs |-> <<>>, ev |-> NoEvent,
   raised |-> FALSE]

Raise(S) == [S EXCEPT !.raised = TRUE]
Log(S, line) == [S EXCEPT !.logs = Append(@, line)]

\* IntentRouter._machine_row_from_message: the fields of the row the router reads later
_machine_row_from_message(m, mid, t) ==
  [ts |-> t, mid |-> mid, text |-> Norm(m.text), img |-> m.img, fz |-> m.fz]

\* a deque without maxlen
AppendUnbounded(dq, row) == Append(dq, row)

\* deque(maxlen=100).append
AppendRow(dq, row) ==
  IF Len(dq) >= BUF_MAXLEN THEN Append(Tail(dq), row) ELSE Append(dq, row)

RECURSIVE RecentStationsFrom(_, _, _, _)
\* the scan of _feed_events_from_recent_station_mention, newest row first
RecentStationsFrom(dq, i, cutoff, nlpOn) ==
  IF i = 0 \/ dq[i].ts < cutoff THEN <<>>
  ELSE IF Hits(dq[i].text) \cap {"SUB_VERB", "FEED_REQUEST_RE", "FEED_VERB"} # {}
    THEN RecentStationsFrom(dq, i - 1, cutoff, nlpOn)
  ELSE IF StationsOrBest(dq[i].text, [NoMessage EXCEPT !.fz = dq[i].fz], nlpOn) # <<>>
    THEN StationsOrBest(dq[i].text, [NoMessage EXCEPT !.fz = dq[i].fz], nlpOn)
  ELSE RecentStationsFrom(dq, i - 1, cutoff, nlpOn)

\* stations of the events _feed_events_from_recent_station_mention returns
_feed_events_from_recent_station_mention(bufv, key, t, nlpOn) ==
  RecentStationsFrom(bufv[key], Len(bufv[key]), t - 60 * feed_lookback_minutes_before, nlpOn)

\* a step 0 that is unsure of its pairing
PairedFeedEventUnsure(conf, m, mid, today) ==
  Event("feed_update", conf - 20, m, mid, TRUE, None, None, <<>>, <<today>>, <<>>)

\* the feed_update event step 0 builds for a paired image
PairedFeedEvent(conf, m, mid, today) ==
  Event("feed_update", conf, m, mid, TRUE, None, None, <<>>, <<today>>, <<>>)

\* a tracker that keeps the entry a key already has
_set_pending_cv_keep_first(S, key, intent, mid, t) ==
  Log(IF S.pcv[key] # NoPendingCv THEN S
      ELSE [S EXCEPT !.pcv[key] = [intent |-> intent, requested |-> t,
                                   expires |-> t + 60 * cv_pending_minutes_after, mid |-> mid]],
      "cv_pending_set")

_set_pending_cv(S, key, intent, mid, t) ==
  Log([S EXCEPT !.pcv[key] = [intent |-> intent, requested |-> t,
                              expires |-> t + 60 * cv_pending_minutes_after, mid |-> mid]],
      "cv_pending_set")

_set_pending_feed(S, key, stations, mid, t) ==
  Log([S EXCEPT !.pfeed[key] = [stations |-> stations, requested |-> t,
                                expires |-> t + 60 * feed_pending_minutes_after, mid |-> mid]],
      "feed_pending_set")

\* what the analysis an leaves in the router S1 (a pending record, the
\* stored trace), then Phase 3 and Phase 4
Analyzed(S1, an, m, mid, d0, t) ==
  LET key == <<m.ch, m.user>>
      S2 == IF an.setcv # None THEN _set_pending_cv(S1, key, an.setcv, mid, t)
            ELSE IF an.setfeed # <<>> THEN _set_pending_feed(S1, key, an.setfeed, mid, t)
            ELSE S1
      S3 == [S2 EXCEPT !.ev = an.ev,
                       !.traces = IF an.trace THEN @ \cup {mid} ELSE @]
      S4 == Log([S3 EXCEPT !.traces = @ \ {mid}], "intent")
  IN IF an.raised THEN Raise(S1)
     ELSE IF an.ev.type = "none" THEN S3
     ELSE _dispatch(S4, an.ev, m, Today(d0, t))

\* phases 1 to 4: buffer, analyze, log the decision, dispatch.  muted: the
\* message is main._MuteMessage, which has no id attribute, so building the
\* row raises AttributeError
Phases(S, m, mid, muted, d0, t, nlpOn) ==
  LET S1 == [S EXCEPT !.buf[<<m.ch, m.user>>] =
                        AppendRow(@, _machine_row_from_message(m, mid, t))]
  IN IF muted THEN Raise(S)
     ELSE Analyzed(S1, _analyze_with_context(m, mid, d0, t, S1.buf, nlpOn), m, mid, d0, t)

\* the end of a branch of step 0: run is the router after the handler
\* calls; a call that raised skips the log line and the pop
Fulfilled(run, kind, key) ==
  IF run.raised THEN run
  ELSE IF kind = "cv"
    THEN [Log(run, "cv_pending_fulfilled") EXCEPT !.pcv[key] = NoPendingCv]
  ELSE IF kind = "feed"
    THEN [Log(run, "feed_pending_fulfilled") EXCEPT !.pfeed[key] = NoPendingFeed]
  ELSE Log(run, "feed_pair_recent")

\* step 0 for a message with an image, then the phases
Step0(S, m, mid, muted, d0, t, nlpOn) ==
  LET key == <<m.ch, m.user>>
      today == Today(d0, t)
      pend == S.pcv[key]
      S1 == IF pend # NoPendingCv /\ t > pend.expires
            THEN Log([S EXCEPT !.pcv[key] = NoPendingCv], "cv_pending_expired") ELSE S
      inFT == m.ch = ch_feeding_team
      fpend == S1.pfeed[key]
      S2 == IF inFT /\ fpend # NoPendingFeed /\ t > fpend.expires
            THEN Log([S1 EXCEPT !.pfeed[key] = NoPendingFeed], "feed_pending_expired") ELSE S1
  IN IF pend # NoPendingCv /\ t <= pend.expires THEN
       Fulfilled(RunCalls(S, <<Call(pend.intent, NoEvent, m.ch)>>, m.failAt, today), "cv", key)
     ELSE IF inFT /\ fpend # NoPendingFeed /\ t <= fpend.expires THEN
       IF muted THEN Raise(S1)
       ELSE Fulfilled(RunCalls(S1, PerStation("feed_update", PairedFeedEvent(95, m, mid, today),
                                              fpend.stations, m.ch),
                               m.failAt, today),
                      "feed", key)
     ELSE IF inFT /\ _feed_events_from_recent_station_mention(S2.buf, key, t, nlpOn) # <<>> THEN
       IF muted THEN Raise(S2)
       ELSE Fulfilled(RunCalls(S2, PerStation("feed_update", PairedFeedEvent(90, m, mid, today),
                                              _feed_events_from_recent_station_mention(
                                                S2.buf, key, t, nlpOn),
                                              m.ch),
                               m.failAt, today),
                      "pair", key)
     ELSE Phases(S2, m, mid, muted, d0, t, nlpOn)

\* a handle_message without its try block: the exception leaves the coroutine
Uncaught(R) == R

\* the except clause of handle_message
Caught(R) == IF R.raised THEN Log(R, "intent_router_error") ELSE R

handle_message(S, m, mid, muted, d0, t, nlpOn) ==
  Caught(IF m.img THEN Step0(S, m, mid, muted, d0, t, nlpOn)
         ELSE Phases(S, m, mid, muted, d0, t, nlpOn))

\* a run starts at noon
StartSecond == 12 * 60 * 60
\* clock advances: one second and the pending window
TickSteps == {1, 60 * cv_pending_minutes_after}

Msg(ch, user, text, img, ref, fz, nlp, failAt) ==
  [ch |-> ch, user |-> user, text |-> text, img |-> img, ref |-> ref, fz |-> fz, nlp |-> nlp,
   failAt |-> failAt]
NoNlp == <<"none", 0, None>>
\* a plain message: no reply, nothing accepted by the fuzzy step, no handler failure
Plain(ch, user, text, img) == Msg(ch, user, text, img, FALSE, None, NoNlp, 0)

NoLast ==
  [op |-> "init", m |-> NoMessage, mid |-> 0, ev |-> NoEvent, calls |-> <<>>, logs |-> <<>>,
   raised |-> FALSE, user |-> 0, view |-> 0]
NoProbe ==
  [fn |-> None, name |-> None, text |-> "", today |-> 0, wd |-> -1, out |-> None, dates |-> <<>>,
   done |-> FALSE, allowed |-> {}, ch |-> 0]

\* the state after IntentRouter.__init__; nlp: whether NLPModel.maybe_load
\* found a configured model
\* the tasks that log e-mails: two manual commands and the scheduler loop
MailProcs == {"manual1", "manual2", "scheduler"}

\* nobody holds or awaits _EMAIL_LOG_LOCK, no task is running
NoMail ==
  [holder |-> None, waiters |-> <<>>, pc |-> [p \in MailProcs |-> "idle"],
   found |-> [p \in MailProcs |-> 0], logged |-> 0, runs |-> [p \in MailProcs |-> 0]]

InitRouter(nlp) ==
  /\ day0 \in StartDays
  /\ now = StartSecond
  /\ nticks = 0
  /\ nmsg = 0
  /\ nlp_loaded = nlp
  /\ buf = [k \in Keys |-> <<>>]
  /\ pending_cv = [k \in Keys |-> NoPendingCv]
  /\ pending_feed = [k \in Keys |-> NoPendingFeed]
  /\ traces = {}
  /\ silent_mode = FALSE
  /\ subs = <<>>
  /\ views = <<>>
  /\ last = NoLast
  /\ tasks = <<>>
  /\ mail = NoMail

\* the default settings configure no model
Init == InitRouter(FALSE) /\ probe = NoProbe

\* main.on_message for a message of a human that the spam filter lets through
OnMessage(m) ==
  \E R \in {handle_message(RouterState, m, nmsg + 1, silent_mode, day0, now, nlp_loaded)} :
     /\ nmsg' = nmsg + 1
     /\ buf' = R.buf
     /\ pending_cv' = R.pcv
     /\ pending_feed' = R.pfeed
     /\ traces' = R.traces
     /\ silent_mode' = R.silent
     /\ subs' = R.subs
     /\ last' = [NoLast EXCEPT !.op = "message", !.m = m, !.mid = nmsg + 1, !.ev = R.ev,
                               !.calls = R.calls, !.logs = R.logs, !.raised = R.raised,
                               !.user = m.user]
     /\ UNCHANGED <<day0, now, nticks, nlp_loaded, views, probe, tasks, mail>>

\* time passes
Tick(d) ==
  /\ nticks < MaxTicks
  /\ nticks' = nticks + 1
  /\ now' = now + d
  /\ last' = [NoLast EXCEPT !.op = "tick"]
  /\ UNCHANGED <<day0, nmsg, buf, pending_cv, pending_feed, traces, silent_mode, nlp_loaded,
                 subs, views, probe, tasks, mail>>

\* IntentRouter._dispatch(event, message, ctx) applied to an event
DispatchEvent(ev, m) ==
  LET mid == nmsg + 1
      e == [ev EXCEPT !.ch = m.ch, !.user = m.user, !.mid = mid]
  IN \E R \in {_dispatch(RouterState, e, m, Today(day0, now))} :
        /\ nmsg < MaxDispatches
        /\ nmsg' = mid
        /\ silent_mode' = R.silent
        /\ subs' = R.subs
        /\ last' = [NoLast EXCEPT !.op = "dispatch", !.m = m, !.mid = mid, !.ev = e,
                                  !.calls = R.calls, !.logs = R.logs, !.raised = R.raised,
                                  !.user = m.user]
        /\ UNCHANGED <<day0, now, nticks, buf, pending_cv, pending_feed, traces, nlp_loaded,
                       views, probe, tasks, mail>>

\* IntentRouter._maybe_clarify_feed(event, message): safe_send posts the prompt
\* unless silent mode suppresses it
_maybe_clarify_feed(ev, m) ==
  LET station == IF ev.station # None THEN ev.station ELSE "unknown"
      e == [ev EXCEPT !.ch = m.ch, !.user = m.user]
      view == [author |-> m.user, station |-> station, ev |-> e, ch |-> m.ch,
               created |-> now, state |-> "open"]
  IN /\ Len(views) < MaxViews
     /\ views' = IF silent_mode THEN views ELSE Append(views, view)
     /\ last' = [NoLast EXCEPT !.op = "clarify", !.m = m, !.ev = e, !.user = m.user,
                               !.logs = <<"clarify">>,
                               !.view = IF silent_mode THEN 0 ELSE Len(views) + 1]
     /\ UNCHANGED <<day0, now, nticks, nmsg, buf, pending_cv, pending_feed, traces,
                    silent_mode, nlp_loaded, subs, probe, tasks, mail>>

\* a prompt that lets anybody answer
interaction_check_anybody(v, u) == TRUE

\* ClarifyView.interaction_check: only the requester may answer
interaction_check(v, u) == u = v.author

\* a prompt takes clicks until it is stopped or its 120 seconds have run out
Clickable(i) == views[i].state = "open" /\ now < views[i].created + CLARIFY_TIMEOUT

\* the event on_yes hands to the feed handler
StrongEvent(v, today) ==
  [v.ev EXCEPT !.conf = 100, !.station = v.station, !.stations = <<>>,
               !.dates = IF @ # <<>> THEN @ ELSE <<today>>]

\* ClarifyView.interaction_check, then ClarifyView.yes: on_yes, finally stop()
ClickYes(i, u, fails) ==
  LET v == views[i]
      today == Today(day0, now)
      R == RunCalls(RouterState, <<Call("feed_update", StrongEvent(v, today), v.ch)>>,
                    IF fails THEN 1 ELSE 0, today)
  IN /\ Clickable(i)
     /\ IF interaction_check(v, u)
        THEN /\ views' = [views EXCEPT ![i].state = "stopped"]
             /\ last' = [NoLast EXCEPT !.op = "yes", !.user = u, !.view = i, !.calls = R.calls,
                                       !.logs = R.logs, !.raised = R.raised]
        ELSE /\ views' = views
             /\ last' = [NoLast EXCEPT !.op = "yes", !.user = u, !.view = i,
                                       !.logs = <<"rejected">>]
     /\ UNCHANGED <<day0, now, nticks, nmsg, buf, pending_cv, pending_feed, traces,
                    silent_mode, nlp_loaded, subs, probe, tasks, mail>>

\* ClarifyView.interaction_check, then ClarifyView.no: stop()
ClickNo(i, u) ==
  /\ Clickable(i)
  /\ views' = IF interaction_check(views[i], u) THEN [views EXCEPT ![i].state = "stopped"]
               ELSE views
  /\ last' = [NoLast EXCEPT !.op = "no", !.user = u, !.view = i,
                            !.logs = IF interaction_check(views[i], u) THEN <<>>
                                     ELSE <<"rejected">>]
  /\ UNCHANGED <<day0, now, nticks, nmsg, buf, pending_cv, pending_feed, traces,
                 silent_mode, nlp_loaded, subs, probe, tasks, mail>>

\* discord.ui.View timeout=120: the prompt stops taking clicks
ViewTimeout(i) ==
  /\ views[i].state = "open"
  /\ now >= views[i].created + CLARIFY_TIMEOUT
  /\ views' = [views EXCEPT ![i].state = "timeout"]
  /\ last' = [NoLast EXCEPT !.op = "timeout", !.view = i]
  /\ UNCHANGED <<day0, now, nticks, nmsg, buf, pending_cv, pending_feed, traces,
                 silent_mode, nlp_loaded, subs, probe, tasks, mail>>

(***************************************************************************)
(* The router receiving messages while time passes.                        *)
(***************************************************************************)
\* an image of user 1 whose first handler call fails
FailingImage(ch) == Msg(ch, 1, "", TRUE, FALSE, None, NoNlp, 1)

Messages ==
  {Plain(ch_general, 1, "TomCat, identify", FALSE),
   Plain(ch_general, 1, "", TRUE),
   Plain(ch_general, 2, "", TRUE),
   FailingImage(ch_general),
   Plain(ch_general, 1, "tomcat silent mode on", FALSE),
   Plain(ch_feeding_team, 1, "mike", FALSE),
   Plain(ch_feeding_team, 1, "", TRUE),
   Plain(ch_feeding_team, 2, "can someone cover hop tomorrow", FALSE)}

Receive == \E m \in Messages : nmsg < MaxMsgs /\ OnMessage(m)
Advance == \E d \in TickSteps : Tick(d)

Next == Receive \/ Advance

Spec == Init /\ [][Next]_vars

(***************************************************************************)
(* Pending requests of one user in three channels: the general channel,    *)
(* #feeding-team and the sandbox, which is a feeding channel for the       *)
(* analysis but is not looked at by step 0.                                *)
(***************************************************************************)
PendingMessages ==
  {Plain(ch_general, 1, "TomCat, identify", FALSE),
   Plain(ch_general, 1, "", TRUE),
   Plain(ch_general, 1, "TomCat, detect", TRUE),
   Plain(ch_sandbox, 1, "mike", FALSE),
   Plain(ch_sandbox, 1, "", TRUE),
   Plain(ch_feeding_team, 1, "mike", FALSE),
   Plain(ch_feeding_team, 1, "", TRUE),
   Plain(ch_feeding_team, 1, "TomCat, identify", FALSE)}

ReceivePending == \E m \in PendingMessages : nmsg < MaxMsgs /\ OnMessage(m)

NextPending == ReceivePending \/ Advance

SpecPending == Init /\ [][NextPending]_vars

(***************************************************************************)
(* Messages handled as interleaved tasks.  The client schedules one task   *)
(* per on_message event; a task runs until it awaits.  Step 0 reads the    *)
(* pending entry with _pending_cv.get, awaits the vision handler (which    *)
(* awaits the download, the worker thread and the sends) and pops the      *)
(* entry after the handler returned.  A message that does not enter the    *)
(* awaited vision handler of step 0 is handled in one step.                *)
(***************************************************************************)
TaskMessages ==
  {Plain(ch_general, 1, "TomCat, identify", FALSE),
   Plain(ch_general, 2, "TomCat, identify", FALSE),
   Plain(ch_general, 1, "", TRUE),
   Plain(ch_general, 2, "", TRUE),
   FailingImage(ch_general)}

\* has_image_now and pend and (not expires or now <= expires)
LivePendingCv(m, pcv, t) ==
  /\ m.img
  /\ pcv[<<m.ch, m.user>>] # NoPendingCv
  /\ t <= pcv[<<m.ch, m.user>>].expires

\* handle_message up to the await of the vision handler: pend is the entry
\* that _pending_cv.get returned, which stays in the map
SuspendInHandler(m) ==
  /\ LivePendingCv(m, pending_cv, now)
  /\ nmsg' = nmsg + 1
  /\ tasks' = Append(tasks, [m |-> m, mid |-> nmsg + 1, pend |-> pending_cv[<<m.ch, m.user>>],
                             pc |-> "handler"])
  /\ last' = [NoLast EXCEPT !.op = "suspend", !.m = m, !.mid = nmsg + 1, !.user = m.user]
  /\ UNCHANGED <<day0, now, nticks, buf, pending_cv, pending_feed, traces, silent_mode,
                 nlp_loaded, subs, views, probe, mail>>

\* the vision handler of task i returns or raises: the log line, the pop and
\* the return of step 0, or the except clause
ResumeFromHandler(i) ==
  \E R \in {Caught(Fulfilled(RunCalls(RouterState,
                                      <<Call(tasks[i].pend.intent, NoEvent, tasks[i].m.ch)>>,
                                      tasks[i].m.failAt, Today(day0, now)),
                             "cv", <<tasks[i].m.ch, tasks[i].m.user>>))} :
     /\ tasks[i].pc = "handler"
     /\ tasks' = [tasks EXCEPT ![i].pc = IF R.raised THEN "raised" ELSE "fulfilled"]
     /\ pending_cv' = R.pcv
     /\ last' = [NoLast EXCEPT !.op = "resume", !.m = tasks[i].m, !.mid = tasks[i].mid,
                               !.calls = R.calls, !.logs = R.logs, !.raised = R.raised,
                               !.user = tasks[i].m.user]
     /\ UNCHANGED <<day0, now, nticks, nmsg, buf, pending_feed, traces, silent_mode,
                    nlp_loaded, subs, views, probe, mail>>

Arrive ==
  \E m \in TaskMessages :
     nmsg < MaxMsgs /\ ~LivePendingCv(m, pending_cv, now) /\ OnMessage(m)
Suspend == \E m \in TaskMessages : nmsg < MaxMsgs /\ SuspendInHandler(m)
Resume == \E i \in DOMAIN tasks : ResumeFromHandler(i)

NextTasks == Arrive \/ Suspend \/ Resume \/ Advance

SpecTasks == Init /\ [][NextTasks]_vars

(***************************************************************************)
(* A buffer at its capacity.  The run starts after one user has written    *)
(* the same plain message BUF_MAXLEN - 2 to BUF_MAXLEN times in #general,  *)
(* one message a second up to noon, each handled by handle_message.        *)
(***************************************************************************)
FillMessage == Plain(ch_general, 1, "mike", FALSE)

\* the buffer after n such messages, message i arriving n - i seconds before
\* noon: the message is not addressed and #general is no feeding channel, so
\* handle_message appends its row, leaves the trace of the message in _traces
\* and does nothing else
Filled(n) == [i \in 1..n |-> _machine_row_from_message(FillMessage, i, StartSecond - (n - i))]

BufferFills == (BUF_MAXLEN - 2)..BUF_MAXLEN

InitBuffer ==
  /\ day0 \in StartDays
  /\ now = StartSecond
  /\ nticks = 0
  /\ \E n \in BufferFills :
        /\ nmsg = n
        /\ buf = [k \in Keys |-> IF k = <<ch_general, 1>> THEN Filled(n) ELSE <<>>]
        /\ traces = 1..n
  /\ nlp_loaded = FALSE
  /\ pending_cv = [k \in Keys |-> NoPendingCv]
  /\ pending_feed = [k \in Keys |-> NoPendingFeed]
  /\ silent_mode = FALSE
  /\ subs = <<>>
  /\ views = <<>>
  /\ last = NoLast
  /\ tasks = <<>>
  /\ mail = NoMail
  /\ probe = NoProbe

BufferMessages ==
  {FillMessage,
   Plain(ch_general, 1, "", TRUE),
   Plain(ch_general, 1, "TomCat, identify", FALSE),
   Plain(ch_general, 2, "mike", FALSE)}

ReceiveFull == \E m \in BufferMessages : nmsg < BUF_MAXLEN + MaxMsgs /\ OnMessage(m)

\* the messages of the run arrive within the second after noon
NextBuffer == ReceiveFull

SpecBuffer == InitBuffer /\ [][NextBuffer]_vars

(***************************************************************************)
(* Requests for a substitute and the answers to them: one member asks in   *)
(* #feeding-team or in the sandbox, the administrator answers "sure" in a  *)
(* feeding channel or in #general, as a reply or not.                      *)
(***************************************************************************)
AcceptMessages ==
  {Plain(ch, 2, "can someone cover hop tomorrow", FALSE) : ch \in {ch_feeding_team, ch_sandbox}}
  \cup {Msg(ch, 1, "sure", FALSE, ref, None, NoNlp, 0) :
          ch \in {ch_feeding_team, ch_general}, ref \in BOOLEAN}
  \cup {Plain(ch_feeding_team, 2, "good morning", FALSE)}

ReceiveAccept == \E m \in AcceptMessages : nmsg < MaxMsgs /\ OnMessage(m)

NextAccept == ReceiveAccept \/ Advance

SpecAccept == Init /\ [][NextAccept]_vars

(***************************************************************************)
(* Station names without a feed verb in #feeding-team and in #general, and  *)
(* images of two users in #feeding-team, with and without a model.         *)
(***************************************************************************)
StationMessages ==
  {Plain(ch_feeding_team, 1, "mike", FALSE),
   Plain(ch_feeding_team, 1, "mike", TRUE),
   Plain(ch_feeding_team, 1, "", TRUE),
   Plain(ch_feeding_team, 2, "", TRUE),
   Plain(ch_general, 1, "mike", FALSE),
   Msg(ch_general, 1, "tomcat mike", FALSE, FALSE, None, <<"feed_update", 80, "HOP">>, 0),
   Plain(ch_feeding_team, 1, "can someone cover mike tomorrow", FALSE)}

ReceiveStation == \E m \in StationMessages : nmsg < MaxMsgs /\ OnMessage(m)

InitStation == probe = NoProbe /\ \E nlp \in BOOLEAN : InitRouter(nlp)

NextStation == ReceiveStation \/ Advance

SpecStation == InitStation /\ [][NextStation]_vars

(***************************************************************************)
(* The silent-mode commands of the administrator (user 1) and of user 2,   *)
(* and one other command.                                                  *)
(***************************************************************************)
SilentMessages ==
  {Plain(ch_general, 1, "tomcat silent mode on", FALSE),
   Plain(ch_general, 1, "tomcat silent mode off", FALSE),
   Plain(ch_general, 2, "tomcat silent mode on", FALSE),
   Plain(ch_general, 2, "tomcat silent mode off", FALSE),
   Plain(ch_general, 1, "TomCat, identify", FALSE)}

ReceiveSilent == \E m \in SilentMessages : nmsg < MaxMsgs /\ OnMessage(m)

NextSilent == ReceiveSilent \/ Advance

SpecSilent == Init /\ [][NextSilent]_vars

(***************************************************************************)
(* The two notions of a feeding channel, for every allow-list the          *)
(* environment can configure and every channel of a message.               *)
(***************************************************************************)
GateProbes ==
  {[NoProbe EXCEPT !.fn = "gate", !.allowed = a, !.ch = c] : a \in SUBSET Channels, c \in Channels}

InitGate == InitRouter(FALSE) /\ probe \in GateProbes

\* in_feeding of _analyze_with_context and the gate of handle_feed_update_event
\* for a message in probe.ch: out is <<in_feeding, blocked>>
CheckGate ==
  /\ probe.fn = "gate" /\ ~probe.done
  /\ probe' = [probe EXCEPT !.out = <<probe.ch \in FeedIdsOf(probe.allowed, ch_feeding_team),
                                      GateBlocks(probe.allowed, probe.ch)>>,
                            !.done = TRUE]
  /\ UNCHANGED <<day0, now, nticks, nmsg, buf, pending_cv, pending_feed, traces, silent_mode,
                 nlp_loaded, subs, views, last, tasks, mail>>

NextGate == CheckGate

SpecGate == InitGate /\ [][NextGate]_vars

(***************************************************************************)
(* handlers/dues.py: the tasks that log e-mails under _EMAIL_LOG_LOCK, an  *)
(* asyncio.Lock.  A task is at one of: idle, waiting (outer acquire),      *)
(* holding (lock taken, before the mailbox query), none and auth (query    *)
(* returned nothing / RuntimeError), calling (query returned messages,     *)
(* about to call _log_emails_batch), blocked (inner acquire), logging      *)
(* (inner lock taken), logged.                                             *)
(***************************************************************************)
\* most messages a mailbox query returns
MaxFound == 2

\* most commands, or scheduler cycles, of one task
MaxRuns == 2

\* asyncio.Lock.acquire by task p, which goes to pc got when it has the lock
\* and to pc wait while it is queued
LockAcquire(M, p, got, wait) ==
  IF M.holder = None /\ M.waiters = <<>>
  THEN [M EXCEPT !.holder = p, !.pc[p] = got]
  ELSE [M EXCEPT !.waiters = Append(@, p), !.pc[p] = wait]

\* asyncio.Lock.release: the first waiter is woken and takes the lock; a task
\* woken from the outer acquire holds, one woken from the inner acquire logs
\* its batch inside _log_emails_batch
LockRelease(M) ==
  IF M.waiters = <<>> THEN [M EXCEPT !.holder = None]
  ELSE [M EXCEPT !.holder = Head(M.waiters), !.waiters = Tail(M.waiters),
                 !.pc[Head(M.waiters)] = IF M.pc[Head(M.waiters)] = "waiting" THEN "holding"
                                         ELSE "logging"]

MailStep(M) ==
  /\ mail' = M
  /\ UNCHANGED <<day0, now, nticks, nmsg, buf, pending_cv, pending_feed, traces, silent_mode,
                 nlp_loaded, subs, views, last, probe, tasks>>

\* handle_log_recent_emails is called, or the scheduler loop starts a cycle:
\* async with _EMAIL_LOG_LOCK
AcquireOuter(p) ==
  /\ mail.pc[p] = "idle" /\ mail.runs[p] < MaxRuns
  /\ MailStep(LockAcquire(mail, p, "holding", "waiting"))

\* _build_gmail_service and messages().list(): RuntimeError while the
\* authorisation is pending, or n messages
ListMessages(p, auth, n) ==
  /\ mail.pc[p] = "holding"
  /\ MailStep([mail EXCEPT !.found[p] = IF auth THEN n ELSE 0,
                           !.pc[p] = IF ~auth THEN "auth" ELSE IF n = 0 THEN "none" ELSE "calling"])

\* _log_emails_batch: async with _EMAIL_LOG_LOCK, and once the lock is taken
\* the body and the exit of the async with
_log_emails_batch(p) ==
  /\ mail.pc[p] \in {"calling", "logging"}
  /\ MailStep(IF mail.pc[p] = "calling" THEN LockAcquire(mail, p, "logging", "blocked")
              ELSE LockRelease([mail EXCEPT !.logged = Min(MaxFound, @ + mail.found[p]),
                                            !.pc[p] = "logged"]))

\* the exit of the caller's async with: after an empty query, after the
\* RuntimeError, or after _log_emails_batch returned
ReleaseOuter(p) ==
  /\ mail.pc[p] \in {"none", "auth", "logged"}
  /\ mail.holder = p
  /\ MailStep(LockRelease([mail EXCEPT !.pc[p] = "idle", !.found[p] = 0, !.runs[p] = @ + 1]))

Command == \E p \in MailProcs : AcquireOuter(p)
Query == \E p \in MailProcs, auth \in BOOLEAN, n \in 0..MaxFound : ListMessages(p, auth, n)
Batch == \E p \in MailProcs : _log_emails_batch(p)
Leave == \E p \in MailProcs : ReleaseOuter(p)

NextMail == Command \/ Query \/ Batch \/ Leave

SpecMail == Init /\ [][NextMail]_vars

\* the event loop runs every task that is ready
MailFairness ==
  \A p \in MailProcs :
    WF_vars(AcquireOuter(p) \/ _log_emails_batch(p) \/ ReleaseOuter(p)
            \/ \E auth \in BOOLEAN, n \in 0..MaxFound : ListMessages(p, auth, n))

SpecMailLive == SpecMail /\ MailFairness

(***************************************************************************)
(* Classification and dispatch of the first message, over many texts.      *)
(***************************************************************************)
FuzzyChoices == {None, "Twix", "HOP"}
NlpChoices == {NoNlp, <<"feed_update", 80, "HOP">>, <<"sub_request", 90, None>>}

\* every text in every channel from either user, with and without an image or a
\* reply; and, for user 1 without image, every outcome of the libraries
ClassifyMessages ==
  {Msg(ch, u, t, img, ref, None, NoNlp, 0) :
     ch \in Channels, u \in UserIds, t \in ClassifyTexts, img \in BOOLEAN, ref \in BOOLEAN}
  \cup
  {Msg(ch, 1, t, FALSE, FALSE, fz, nlp, failAt) :
     ch \in {ch_feeding_team, ch_general}, t \in ClassifyTexts, fz \in FuzzyChoices,
     nlp \in NlpChoices, failAt \in 0..2}

First == \E m \in ClassifyMessages : nmsg = 0 /\ OnMessage(m)

NextClassify == First

InitClassify == probe = NoProbe /\ \E nlp \in BOOLEAN : InitRouter(nlp)

SpecClassify == InitClassify /\ [][NextClassify]_vars

(***************************************************************************)
(* Dispatch of events and the clarification prompt.                        *)
(***************************************************************************)
\* feed_update events at confidences below, at and above CONF_MID, with no
\* station, one station and two stations; and a show_photo event
DispatchEvents ==
  {Event("feed_update", conf, NoMessage, 0, FALSE, None, st[1], st[2], <<1>>, <<>>) :
     conf \in {CONF_MID - 3, CONF_MID, CONF_HIGH}, st \in {<<None, <<>>>>, <<"Microwave", <<"Microwave">>>>,
                                             <<"HOP", <<"HOP", "Business">>>>}}
  \cup {Event("show_photo", 100, NoMessage, 0, FALSE, "Twix", None, <<>>, <<>>, <<>>)}

DispatchMessages ==
  {Msg(ch, 1, "fed microwave", FALSE, FALSE, None, NoNlp, failAt) :
     ch \in {ch_feeding_team, ch_general}, failAt \in 0..1}

\* the events a prompt is posted for: low confidence, with or without a
\* station, with or without dates
ClarifyEvents ==
  {Event("feed_update", CONF_MID - 3, NoMessage, 0, FALSE, None, st, <<>>, dates, <<>>) :
     st \in {None, "Microwave"}, dates \in {<<>>, <<1>>}}

ClarifyMessages == {Plain(ch_feeding_team, u, "fed microwave", FALSE) : u \in UserIds}

Direct == \E ev \in DispatchEvents, m \in DispatchMessages : DispatchEvent(ev, m)
Clarify == \E ev \in ClarifyEvents, m \in ClarifyMessages : _maybe_clarify_feed(ev, m)
Yes == \E i \in DOMAIN views, u \in UserIds, fails \in BOOLEAN : ClickYes(i, u, fails)
No == \E i \in DOMAIN views, u \in UserIds : ClickNo(i, u)
Timeout == \E i \in DOMAIN views : ViewTimeout(i)
Wait == \E d \in {1, CLARIFY_TIMEOUT} : Tick(d)

\* events handed to _dispatch while time passes
NextDispatch == Direct \/ Wait

SpecDispatch == Init /\ [][NextDispatch]_vars

\* prompts posted by _maybe_clarify_feed, answered or left to time out
NextClarify == Clarify \/ Yes \/ No \/ Timeout \/ Wait

SpecClarify == Init /\ [][NextClarify]_vars

(***************************************************************************)
(* The alias resolver applied to "show me <name>" for every cat name.      *)
(***************************************************************************)
AliasProbes ==
  {[NoProbe EXCEPT !.fn = "resolve", !.name = CAT_NAMES[i],
                   !.text = "show me " \o Lower(CAT_NAMES[i])] : i \in DOMAIN CAT_NAMES}

\* texts without a whole-word alias: name is the table asked for
PrefixTexts ==
  {<<"station", "mai">>, <<"station", "the">>, <<"station", "mai sni">>, <<"station", "zz qq">>,
   <<"station", "ma">>, <<"station", "mai zz">>, <<"station", "hei mar">>,
   <<"cat", "pen">>, <<"cat", "scr">>, <<"cat", "scr mel">>, <<"cat", "mel pep">>,
   <<"cat", "gar">>, <<"cat", "pe">>, <<"cat", "scr pen">>}

PrefixProbes == {[NoProbe EXCEPT !.fn = "prefix", !.name = p[1], !.text = p[2]] : p \in PrefixTexts}

\* texts that name stations by their aliases, joined by connectives or by
\* nothing, with the set of stations named
StationSetTexts ==
  {<<"hop and business", {"HOP", "Business"}>>, <<"mike and greens", {"Microwave", "The Greens"}>>,
   <<"west hall and lot 50", {"West Hall", "Lot 50"}>>, <<"mike or hop", {"Microwave", "HOP"}>>,
   <<"hop business", {"HOP", "Business"}>>, <<"hop, business", {"HOP", "Business"}>>,
   <<"hop & business", {"HOP", "Business"}>>, <<"mike", {"Microwave"}>>}

StationSetProbes == {[NoProbe EXCEPT !.fn = "stations", !.text = p[1]] : p \in StationSetTexts}

InitAlias == InitRouter(FALSE) /\ probe \in AliasProbes \cup PrefixProbes \cup StationSetProbes

\* resolve_station_or_cat(text, want="cat")
ResolveCat ==
  /\ probe.fn = "resolve" /\ ~probe.done
  /\ probe' = [probe EXCEPT !.out = resolve_station_or_cat(probe.text, "cat"), !.done = TRUE]
  /\ UNCHANGED <<day0, now, nticks, nmsg, buf, pending_cv, pending_feed, traces, silent_mode,
                 nlp_loaded, subs, views, last, tasks, mail>>

\* resolve_station_or_cat(text, want) for the table named by the probe
ResolvePrefix ==
  /\ probe.fn = "prefix" /\ ~probe.done
  /\ probe' = [probe EXCEPT !.out = resolve_station_or_cat(probe.text, probe.name), !.done = TRUE]
  /\ UNCHANGED <<day0, now, nticks, nmsg, buf, pending_cv, pending_feed, traces, silent_mode,
                 nlp_loaded, subs, views, last, tasks, mail>>

\* resolve_stations(text)
ResolveStations ==
  /\ probe.fn = "stations" /\ ~probe.done
  /\ probe' = [probe EXCEPT !.out = resolve_stations(probe.text), !.done = TRUE]
  /\ UNCHANGED <<day0, now, nticks, nmsg, buf, pending_cv, pending_feed, traces, silent_mode,
                 nlp_loaded, subs, views, last, tasks, mail>>

NextAlias == ResolveCat \/ ResolvePrefix \/ ResolveStations

SpecAlias == InitAlias /\ [][NextAlias]_vars

(***************************************************************************)
(* The date extractor applied to weekday phrases on consecutive days.      *)
(***************************************************************************)
\* weekday words and date.weekday() of the day each names
DayWords ==
  {<<"mon", 0>>, <<"monday", 0>>, <<"tue", 1>>, <<"tues", 1>>, <<"tuesday", 1>>, <<"wed", 2>>,
   <<"wednesday", 2>>, <<"thu", 3>>, <<"thur", 3>>, <<"thurs", 3>>, <<"thursday", 3>>,
   <<"fri", 4>>, <<"friday", 4>>, <<"sat", 5>>, <<"saturday", 5>>, <<"sun", 6>>, <<"sunday", 6>>}

\* a weekday name alone, after "this" or "next", and capitalised
BarePhrases ==
  {<<q \o w[1], w[2]>> : q \in {"", "this ", "next ", "This  "}, w \in DayWords}
  \cup {<<Capitalize(w[1]), w[2]>> : w \in DayWords}

\* other texts: wd -1 marks a text that is not a bare weekday phrase
OtherPhrases ==
  {<<"on Saturday", -1>>, <<"on sat", -1>>, <<"on monday", -1>>, <<"fed mike saturday", -1>>,
   <<"yesterday", -1>>, <<"today and tomorrow", -1>>, <<"21st to 23rd", -1>>, <<"fed mike", -1>>}

\* "on <weekday>" for every weekday word, with the weekday it names
OnPhrases == {<<"on " \o w[1], w[2]>> : w \in DayWords}

DateProbes ==
  {[NoProbe EXCEPT !.fn = "dates", !.text = p[1], !.wd = p[2], !.today = d] :
     p \in BarePhrases \cup OtherPhrases \cup {<<o[1], -1>> : o \in OnPhrases},
     d \in 1..NumProbeDays}

InitDates == InitRouter(FALSE) /\ probe \in DateProbes

\* IntentRouter._extract_dates(text) on the day probe.today
ExtractDates ==
  /\ probe.fn = "dates" /\ ~probe.done
  /\ probe' = [probe EXCEPT !.dates = _extract_dates(probe.text, probe.today), !.done = TRUE]
  /\ UNCHANGED <<day0, now, nticks, nmsg, buf, pending_cv, pending_feed, traces, silent_mode,
                 nlp_loaded, subs, views, last, tasks, mail>>

NextDates == ExtractDates

SpecDates == InitDates /\ [][NextDates]_vars

(***************************************************************************)
(* Properties.                                                             *)
(***************************************************************************)
(* tomcat/intents.py: the legacy regular-expression classifier.  Its       *)
(* patterns are compiled with re.I and applied to the text as written, so  *)
(* \s+ is a run of white space here.                                       *)
(***************************************************************************)
\* settings.tomcat_wake and settings.command_prefix
tomcat_wake == "tomcat"
command_prefix == "!"

\* WAKE = ^\s*tomcat[\s,]+ : the position after the match, 0 if none
WAKE(text) ==
  LET p == SkipWs(text, 1)
      q == p + Len(tomcat_wake)
      e == SkipChars(text, q, {" ", "\t", "\n", ","})
  IN IF LitAt(Lower(text), p, tomcat_wake) /\ e > q THEN e ELSE 0

\* intents._strip_wake
_strip_wake(text) == IF WAKE(text) > 0 THEN Strip(SubSeq(text, WAKE(text), Len(text))) ELSE text

\* [\w \-']+
IsNameText(s) ==
  s # "" /\ \A i \in 1..Len(s) : IsWordCh(Ch(s, i)) \/ Ch(s, i) \in {" ", "-", "'"}

\* \s+(?P<name>[\w \-']+)$ at position p: group("name").strip(), None if no match
NameFrom(s, p) ==
  IF \E q \in (p + 1)..SkipWs(s, p) : IsNameText(SubSeq(s, q, Len(s)))
  THEN Strip(SubSeq(s, SkipWs(s, p), Len(s))) ELSE None

\* the position after lit and the white space that follows it at i; 0 if lit
\* is not at i or no white space follows
AfterWord(s, i, lit) ==
  IF LitAt(Lower(s), i, lit) /\ SkipWs(s, i + Len(lit)) > i + Len(lit) THEN SkipWs(s, i + Len(lit)) ELSE 0

\* PAT_WHO_IS = who\s+is\s+(?P<name>[\w \-']+)$ matched at i
WhoIsName(s, i) ==
  LET q == AfterWord(s, i, "who")
  IN IF q > 0 /\ LitAt(Lower(s), q, "is") THEN NameFrom(s, q + 2) ELSE None
\* PAT_WHO_IS.search(s): the leftmost position it matches at, 0 if none
WhoIsAt(s) ==
  LET hit == {i \in 1..Len(s) : WhoIsName(s, i) # None}
  IN IF hit = {} THEN 0 ELSE CHOOSE i \in hit : \A j \in hit : i <= j

\* PAT_SHOW_PHOTO = show\s+(?:me\s+)?(?P<name>[\w \-']+)$ matched at i: the
\* optional group is tried first
ShowName(s, i) ==
  LET q == AfterWord(s, i, "show")
      withMe == IF q > 0 /\ LitAt(Lower(s), q, "me") THEN NameFrom(s, q + 2) ELSE None
  IN IF ~LitAt(Lower(s), i, "show") THEN None
     ELSE IF withMe # None THEN withMe
     ELSE NameFrom(s, i + 4)
\* PAT_SHOW_PHOTO.search(s): the leftmost position it matches at, 0 if none
ShowAt(s) ==
  LET hit == {i \in 1..Len(s) : ShowName(s, i) # None}
  IN IF hit = {} THEN 0 ELSE CHOOSE i \in hit : \A j \in hit : i <= j

\* a \s+ b somewhere in s
TwoWords(s, a, b) == \E i \in 1..Len(s) : AfterWord(s, i, a) > 0 /\ LitAt(Lower(s), AfterWord(s, i, a), b)

\* PAT_FEEDING_STATUS = (feeding|stations?)\s+(status|today|list)
PAT_FEEDING_STATUS(s) ==
  \E a \in {"feeding", "station", "stations"}, b \in {"status", "today", "list"} : TwoWords(s, a, b)

\* PAT_SILENT = \b(silent|quiet|no\s*reply)\b
PAT_SILENT(s) ==
  \/ AnyWhole(Lower(s), {"silent", "quiet"})
  \/ \E i \in 1..Len(s) :
        /\ LitAt(Lower(s), i, "no") /\ WordBoundary(s, i - 1)
        /\ LitAt(Lower(s), SkipWs(s, i + 2), "reply")
        /\ WordBoundary(s, SkipWs(s, i + 2) + 4)

\* PAT_CV_IDENT = \b(identify|who\s+is\s+this)\b
PAT_CV_IDENT(s) ==
  \/ WholeWord(Lower(s), "identify")
  \/ \E i \in 1..Len(s) :
        LET q == AfterWord(s, i, "who")
            r == IF q > 0 THEN AfterWord(s, q, "is") ELSE 0
        IN r > 0 /\ WordBoundary(s, i - 1) /\ LitAt(Lower(s), r, "this") /\ WordBoundary(s, r + 3)

\* PAT_CV_CROP = \b(crop|crop\s+cats?)\b and PAT_CV_DETECT likewise: the
\* first alternative decides
PAT_CV_CROP(s) == WholeWord(Lower(s), "crop")
PAT_CV_DETECT(s) == WholeWord(Lower(s), "detect")

\* text[len(prefix):].strip().split()[0].lower(); None where [0] raises IndexError
PrefixCommand(text) ==
  LET rest == Strip(SubSeq(text, Len(command_prefix) + 1, Len(text)))
      ends == {k \in 1..Len(rest) : k = Len(rest) \/ IsSpace(Ch(rest, k + 1))}
  IN IF rest = "" THEN None
     ELSE Lower(SubSeq(rest, 1, CHOOSE k \in ends : \A j \in ends : k <= j))

\* intents.classify(text, channel_id): <<Intent.type, data["name"]>>, None
\* for no intent.  textIsId: the first argument is the channel id, an int, as
\* tests/test_intents.py passes it, and WAKE.match raises TypeError
classify(text, textIsId) ==
  IF textIsId THEN <<"TypeError", None>>
  ELSE IF text = "" THEN <<None, None>>
  ELSE IF WhoIsAt(_strip_wake(text)) > 0
    THEN <<"cat_profile", WhoIsName(_strip_wake(text), WhoIsAt(_strip_wake(text)))>>
  ELSE IF ShowAt(_strip_wake(text)) > 0
    THEN <<"cat_photo", ShowName(_strip_wake(text), ShowAt(_strip_wake(text)))>>
  ELSE IF PAT_FEEDING_STATUS(_strip_wake(text)) THEN <<"feeding_status", None>>
  ELSE IF PAT_SILENT(_strip_wake(text)) THEN <<"silent_mode", None>>
  ELSE IF PAT_CV_IDENT(_strip_wake(text)) THEN <<"cv_identify", None>>
  ELSE IF PAT_CV_CROP(_strip_wake(text)) THEN <<"cv_crop", None>>
  ELSE IF PAT_CV_DETECT(_strip_wake(text)) THEN <<"cv_detect", None>>
  ELSE IF StartsWith(text, command_prefix) THEN
    IF PrefixCommand(text) = None THEN <<"IndexError", None>>
    ELSE IF PrefixCommand(text) = "members" THEN <<"members_count", None>>
    ELSE <<None, None>>
  ELSE <<None, None>>

\* "show me <name>" after the wake word for every cat name, and other commands
LegacyTexts ==
  {<<"TomCat, show me " \o CAT_NAMES[i], CAT_NAMES[i]>> : i \in DOMAIN CAT_NAMES}
  \cup {<<t, None>> : t \in {"", "tomcat show Twix", "TomCat,  who is Twix", "TomCat, who is this?",
                            "TomCat, show me\tTwix", "TomCat, show me Twix?", "show me Twix",
                            "TomCat, feeding status", "tomcat quiet", "TomCat, no reply",
                            "TomCat, identify", "TomCat, crop cats", "Tomcat detect",
                            "!members", "! Members now", "!", "!help", "good morning"}}

\* name: the cat a probe asks for, None if none; wd 1 marks the call of the test
LegacyProbes ==
  {[NoProbe EXCEPT !.fn = "classify", !.text = t[1], !.name = t[2], !.wd = 0] : t \in LegacyTexts}
  \cup {[NoProbe EXCEPT !.fn = "classify", !.text = "TomCat, show me Microwave",
                        !.name = "Microwave", !.wd = 1]}

InitLegacy == InitRouter(FALSE) /\ probe \in LegacyProbes

\* classify(text) and, for the probe of the test, classify(999, text)
LegacyClassify ==
  /\ probe.fn = "classify" /\ ~probe.done
  /\ probe' = [probe EXCEPT !.out = classify(probe.text, probe.wd = 1), !.done = TRUE]
  /\ UNCHANGED <<day0, now, nticks, nmsg, buf, pending_cv, pending_feed, traces, silent_mode,
                 nlp_loaded, subs, views, last, tasks, mail>>

NextLegacy == LegacyClassify

SpecLegacy == InitLegacy /\ [][NextLegacy]_vars

(***************************************************************************)
LastText == Norm(last.m.text)
LastTextWo == StripWake(LastText)
LastKey == <<last.m.ch, last.m.user>>
LastToday == Today(day0, now)
CallsTo(h) == {i \in DOMAIN last.calls : last.calls[i].h = h}

\* the command rules of an addressed message, all tried before the feeding flows
CommandPatterns ==
  {"SILENT_CMD", "WHO_THIS_RE", "FEEDING_UPDATE_RE", "MANUAL_8PM_RE", "CREATE_PROFILES_RE",
   "UPDATE_PROFILE_RE", "UPDATE_ALL_PROFILES_RE", "FEEDING_CHECK_RE", "SHOW_PAT", "WHO_PAT",
   "IDENT_PAT", "DETECT_PAT", "CROP_PAT"}
TakenByCommand(m) ==
  Addressed(m) /\ \E re \in CommandPatterns : Hit(re, StripWake(Norm(m.text)))
SubRequestPattern(m) == Hit("SUB_VERB", Norm(m.text)) \/ Hit("FEED_REQUEST_RE", Norm(m.text))
\* a rule before the generic feed-verb rule takes the message
ConsumedEarlier(m) == TakenByCommand(m) \/ (m.ch \in feed_ids /\ SubRequestPattern(m))

ShowMeWithCat ==
  /\ last.op = "message"
  /\ Addressed(last.m)
  /\ Hit("SHOW_PAT", LastTextWo)
  /\ _extract_best_entity(LastTextWo, "cat", FALSE, last.m, nlp_loaded) # None
PhotoOf(N) ==
  /\ last.ev.type = "show_photo" /\ last.ev.cat = N /\ last.ev.conf = 100
  /\ Len(last.calls) = 1 /\ last.calls[1].h = "cat_photo" /\ last.calls[1].ev.cat = N

\* C1 as stated: every addressed message that matches the "show me" pattern
\* and whose cat entity resolves to N is classified show_photo with cat N and
\* confidence 1.0, and dispatch makes exactly one call, to the cat photo
\* handler with N.
C1_AsStated ==
  ShowMeWithCat => PhotoOf(_extract_best_entity(LastTextWo, "cat", FALSE, last.m, nlp_loaded))

\* C1: an addressed message that matches the "show me" pattern, matches
\* neither the silent-mode command nor the "who/what is this" pattern (the two
\* higher rules that can match the same text), and whose cat entity resolves
\* to N is classified show_photo with cat N and confidence 1.0, and dispatch
\* makes exactly one call, to the cat photo handler with N.
C1_ShowPhoto ==
  (ShowMeWithCat /\ ~Hit("SILENT_CMD", LastTextWo) /\ ~Hit("WHO_THIS_RE", LastTextWo))
    => PhotoOf(_extract_best_entity(LastTextWo, "cat", FALSE, last.m, nlp_loaded))

C1_Witness ==
  /\ last.op = "message" /\ last.m.text = "TomCat, show me Microwave"
  /\ last.ev.type = "show_photo" /\ last.ev.cat = "Microwave" /\ last.ev.conf = 100
  /\ Len(last.calls) = 1 /\ last.calls[1].h = "cat_photo"

VisionHandlers == {"cv_identify", "cv_detect", "cv_crop"}

\* the message of this step is an addressed identify command with no image,
\* no reply and no image of its user in its channel within the lookback window
IdentifyWithoutImage ==
  LET m == last'.m
  IN /\ Addressed(m) /\ ~m.img /\ ~m.ref
     /\ Hit("IDENT_PAT", StripWake(Norm(m.text)))
     /\ \A re \in CommandPatterns \ {"IDENT_PAT", "DETECT_PAT", "CROP_PAT"} :
          ~Hit(re, StripWake(Norm(m.text)))
     /\ _last_image_for_user_seconds(buf, <<m.ch, m.user>>, now, cv_lookback_seconds_before) = NoRow

\* C2: an addressed identify command with no image in scope returns none and
\* records a pending entry for (channel, user) that expires after it was
\* created; the first image of that user in that channel at or before the
\* expiry invokes the identify handler exactly once and removes the entry;
\* an image that finds no entry invokes no vision handler.
C2_Step ==
  LET m == last'.m
      k == <<m.ch, m.user>>
  IN (nmsg' = nmsg + 1 /\ last'.op = "message") =>
       /\ IdentifyWithoutImage =>
            /\ last'.ev.type = "none"
            /\ pending_cv'[k].intent = "cv_identify"
            /\ pending_cv'[k].expires > pending_cv'[k].requested
       /\ (m.img /\ pending_cv[k].intent = "cv_identify" /\ now <= pending_cv[k].expires) =>
            /\ Len(last'.calls) = 1 /\ last'.calls[1].h = "cv_identify"
            /\ pending_cv'[k] = NoPendingCv
       /\ (m.img /\ m.text = "" /\ pending_cv[k] = NoPendingCv) =>
            \A i \in DOMAIN last'.calls : last'.calls[i].h \notin VisionHandlers
C2_PendingIdentify == [][C2_Step]_vars

C4_OnlyRequester ==
  /\ last.op = "yes" =>
       LET v == views[last.view]
       IN IF last.user = v.author
          THEN /\ Len(last.calls) = 1 /\ last.calls[1].h = "feed_update"
               /\ last.calls[1].ev.conf = 100
               /\ last.calls[1].ev.station = v.station
               /\ (v.ev.station # None => v.station = v.ev.station)
               /\ v.state = "stopped"
          ELSE last.calls = <<>> /\ last.logs = <<"rejected">> /\ v.state = "open"
  /\ last.op \in {"no", "timeout", "clarify"} => last.calls = <<>>

C4_Witness ==
  /\ last.op = "yes" /\ last.user = views[last.view].author
  /\ views[last.view].ev.station = "Microwave"
  /\ Len(last.calls) = 1 /\ last.calls[1].ev.station = "Microwave" /\ last.calls[1].ev.conf = 100
  /\ views[last.view].state = "stopped"

\* the stations one of whose aliases stands in the text as a whole word
MentionedStations(text) ==
  {_DISPLAY(_STATION_ALIASES[i].key) :
     i \in {j \in DOMAIN _STATION_ALIASES :
              \E v \in _STATION_ALIASES[j].vals : WholeWord(_normalize(text), v)}}

\* C5: a message that no earlier rule takes, with a feed verb and the aliases
\* of two distinct stations, yields one feed_update event whose stations are
\* exactly these two, and dispatch makes exactly two calls, all to the feed
\* handler, one per station, each with the dates of the event.
C5_TwoStations ==
  (last.op = "message" /\ ~ConsumedEarlier(last.m) /\ Hit("FEED_VERB", LastText)
     /\ Cardinality(MentionedStations(last.m.text)) = 2)
    => /\ last.ev.type = "feed_update"
       /\ Range(last.ev.stations) = MentionedStations(last.m.text)
       /\ Len(last.calls) = 2
       /\ {last.calls[i].ev.station : i \in DOMAIN last.calls} = MentionedStations(last.m.text)
       /\ \A i \in DOMAIN last.calls :
            last.calls[i].h = "feed_update" /\ last.calls[i].ev.dates = last.ev.dates

\* C6: a message, addressed or not and in any channel, that no earlier
\* rule takes, that has a feed verb and resolves at least one station yields
\* a feed_update event with confidence 0.95 for the resolved stations, whose
\* dates are the extracted dates, or today alone when none was extracted.
C6_GenericFeedVerb ==
  (last.op = "message" /\ ~ConsumedEarlier(last.m) /\ Hit("FEED_VERB", LastText)
     /\ StationsOrBest(LastText, last.m, nlp_loaded) # <<>>)
    => /\ last.ev.type = "feed_update" /\ last.ev.conf = 95
       /\ last.ev.station = StationsOrBest(LastText, last.m, nlp_loaded)[1]
       /\ last.ev.dates = IF _extract_dates(LastText, LastToday) # <<>>
                          THEN _extract_dates(LastText, LastToday) ELSE <<LastToday>>

C6_Witness ==
  /\ last.op = "message" /\ last.m.text = "mike fed" /\ ~Addressed(last.m)
  /\ last.m.ch \notin feed_ids
  /\ last.ev.type = "feed_update" /\ last.ev.conf = 95 /\ last.ev.station = "Microwave"
  /\ last.ev.dates = <<LastToday>>

\* C7: in a feeding channel a message that no command rule takes, that matches
\* the substitution-request pattern and has a feed verb and a resolvable
\* station is classified sub_request.
C7_SubRequestFirst ==
  (last.op = "message" /\ last.m.ch \in feed_ids /\ ~TakenByCommand(last.m)
     /\ SubRequestPattern(last.m) /\ Hit("FEED_VERB", LastText)
     /\ StationsOrBest(LastText, last.m, nlp_loaded) # <<>>)
    => last.ev.type = "sub_request"

\* C8: for every canonical cat name N, resolving "show me " followed by N in
\* lower case as a cat returns N.
C8_CanonicalNames ==
  (probe.fn = "resolve" /\ probe.done) => probe.out = probe.name

\* C9: the dates extracted from "on Saturday" on a Sunday contain the day
\* before today and no day six days from today.
C9_OnSaturday ==
  (probe.fn = "dates" /\ probe.done /\ probe.text = "on Saturday" /\ Weekday(probe.today) = 6)
    => /\ probe.today - 1 \in Range(probe.dates)
       /\ probe.today + 6 \notin Range(probe.dates)
       /\ probe.today - 6 \notin Range(probe.dates)

\* C10: for a weekday name alone or after "this" or "next", the extracted date
\* is the one next occurrence of that weekday after today: 1 to 7 days ahead,
\* and 7 days ahead when today is that weekday.
C10_NextOccurrence ==
  (probe.fn = "dates" /\ probe.done /\ probe.wd >= 0)
    => /\ Len(probe.dates) = 1
       /\ probe.dates[1] - probe.today \in 1..7
       /\ Weekday(probe.dates[1]) = probe.wd
       /\ (Weekday(probe.today) = probe.wd => probe.dates[1] = probe.today + 7)

C10_Witness ==
  /\ probe.fn = "dates" /\ probe.done /\ probe.text = "friday"
  /\ Weekday(probe.today) = 4 /\ probe.dates = <<probe.today + 7>>

\* the log lines that record a refused command
DeniedLines == {"silent_mode_denied", "manual_8pm_denied", "permission_denied"}

\* C11: an addressed "update all profiles" command of an author who is not an
\* administrator reacts to nothing and edits no profile, and a
\* permission-denied line is logged
C11_UpdateAllDenied ==
  (last.op = "message" /\ Addressed(last.m) /\ last.ev.type = "profiles_update_all"
     /\ ~IsAdmin(last.m.user))
  => (/\ Range(last.logs) \cap ProfileHandlers = {}
      /\ Range(last.logs) \cap DeniedLines # {})

\* C12: the legacy classify function returns an intent, of type cat_show, for
\* a wake-prefixed "show me <cat name>" message
C12_LegacyCatShow ==
  (probe.fn = "classify" /\ probe.done /\ probe.name # None)
    => probe.out[1] = "cat_show"

\* C13: each pending map holds one entry per (channel, user) key; a message
\* that registers a request leaves, under its key, the payload of that
\* request (its message id, the time of the request, the window from that
\* time), whatever the key held before, and touches no other key
C13_Step ==
  LET m == last'.m
      k == <<m.ch, m.user>>
  IN (nmsg' = nmsg + 1 /\ last'.op = "message") =>
       /\ "cv_pending_set" \in Range(last'.logs) =>
            /\ pending_cv'[k].intent \in VisionHandlers
            /\ pending_cv'[k].mid = last'.mid
            /\ pending_cv'[k].requested = now
            /\ pending_cv'[k].expires = now + 60 * cv_pending_minutes_after
       /\ "feed_pending_set" \in Range(last'.logs) =>
            /\ pending_feed'[k].stations # <<>>
            /\ pending_feed'[k].mid = last'.mid
            /\ pending_feed'[k].requested = now
            /\ pending_feed'[k].expires = now + 60 * feed_pending_minutes_after
       /\ \A k2 \in Keys \ {k} :
            pending_cv'[k2] = pending_cv[k2] /\ pending_feed'[k2] = pending_feed[k2]
C13_LastWriterWins == [][C13_Step]_vars

\* a second identify request of the same user in the same channel, made
\* later, has replaced the first one
C13_Witness ==
  /\ last.op = "message" /\ last.mid = 2 /\ "cv_pending_set" \in Range(last.logs)
  /\ Len(buf[LastKey]) = 2 /\ buf[LastKey][1].text = buf[LastKey][2].text
  /\ pending_cv[LastKey].mid = 2 /\ pending_cv[LastKey].requested > StartSecond

\* the handlers step 0 can call for a pending entry
PendingHandlers == VisionHandlers \cup {"feed_update"}

\* C14: an image that arrives for a pending entry fulfils it only at or
\* before the expiry; after the expiry the entry is removed, no vision or
\* feed handler is called and the expiry is logged
C14_Step ==
  LET m == last'.m
      k == <<m.ch, m.user>>
      called == {last'.calls[i].h : i \in DOMAIN last'.calls}
  IN (nmsg' = nmsg + 1 /\ last'.op = "message" /\ m.img) =>
       /\ pending_cv[k] # NoPendingCv =>
            /\ "cv_pending_fulfilled" \in Range(last'.logs) => now <= pending_cv[k].expires
            /\ now > pending_cv[k].expires =>
                 /\ pending_cv'[k] = NoPendingCv
                 /\ "cv_pending_expired" \in Range(last'.logs)
                 /\ called \cap PendingHandlers = {}
       /\ pending_feed[k] # NoPendingFeed =>
            /\ "feed_pending_fulfilled" \in Range(last'.logs) => now <= pending_feed[k].expires
            /\ now > pending_feed[k].expires =>
                 /\ pending_feed'[k] = NoPendingFeed
                 /\ "feed_pending_expired" \in Range(last'.logs)
                 /\ called \cap PendingHandlers = {}
C14_ExpiryBoundary == [][C14_Step]_vars

\* C15: when an image arrives for a live pending CV entry and the vision
\* handler raises, the entry is gone all the same, so that a later image of
\* the same user finds nothing to run
C15_Step ==
  LET m == last'.m
      k == <<m.ch, m.user>>
  IN (/\ nmsg' = nmsg + 1 /\ last'.op = "message" /\ m.img
      /\ pending_cv[k] # NoPendingCv /\ now <= pending_cv[k].expires
      /\ last'.calls # <<>> /\ ~last'.calls[1].ok)
     => pending_cv'[k] = NoPendingCv
C15_ConsumedBeforeHandler == [][C15_Step]_vars

\* C16: when image messages of one user in one channel are handled as
\* interleaved tasks, no two of the tasks that entered the awaited vision
\* handler read the same pending CV entry: the entry is taken by one task and
\* the handler runs once for it
C16_ConsumedOnce ==
  \A i, j \in DOMAIN tasks : tasks[i].pend = tasks[j].pend => i = j

C18_StationIsolation ==
  (/\ last.op \in {"dispatch", "message"}
   /\ last.ev.type \in {"feed_update", "sub_request"}
   /\ Len(last.ev.stations) > 1
   /\ \E i \in DOMAIN last.calls : last.calls[i].h = last.ev.type /\ ~last.calls[i].ok)
  => \A st \in Range(last.ev.stations) :
       \E i \in DOMAIN last.calls : last.calls[i].h = last.ev.type /\ last.calls[i].ev.station = st

\* the step classified the message and left the buffer, the pending maps and
\* the sub ledger as the run U of handle_message does
SameEffects(U) ==
  /\ last'.ev = U.ev
  /\ buf' = U.buf
  /\ pending_cv' = U.pcv
  /\ pending_feed' = U.pfeed
  /\ subs' = U.subs

\* C19: a message handled while silent mode is on is classified as the same
\* intent, and has the same effects on the buffer, the pending maps and the
\* sub ledger, as the same message handled in the same state with silent
\* mode off
C19_Step ==
  (nmsg' = nmsg + 1 /\ last'.op = "message" /\ silent_mode)
  => SameEffects(handle_message([RouterState EXCEPT !.silent = FALSE], last'.m, nmsg + 1, FALSE,
                                day0, now, nlp_loaded))
C19_SilentModeNonInterference == [][C19_Step]_vars

\* C20: every message the router handles becomes the newest row of the
\* buffer of its (channel, user) key, also a message with an image that
\* fulfils a pending request or is paired with a recent station mention
C20_Step ==
  LET k == <<last'.m.ch, last'.m.user>>
  IN (nmsg' = nmsg + 1 /\ last'.op = "message") =>
       /\ buf'[k] # <<>>
       /\ buf'[k][Len(buf'[k])].mid = nmsg + 1
C20_EveryMessageBuffered == [][C20_Step]_vars

\* C21: a buffer never holds more than BUF_MAXLEN rows; a row appended to a
\* full buffer pushes out the oldest row and nothing else, and the rows that
\* stay keep their order
C21_Step ==
  \A k \in Keys :
    /\ Len(buf'[k]) <= BUF_MAXLEN
    /\ buf'[k] # buf[k] =>
         IF Len(buf[k]) = BUF_MAXLEN
           THEN /\ Len(buf'[k]) = BUF_MAXLEN
                /\ SubSeq(buf'[k], 1, BUF_MAXLEN - 1) = Tail(buf[k])
                /\ buf'[k][BUF_MAXLEN].mid = nmsg + 1
           ELSE /\ Len(buf'[k]) = Len(buf[k]) + 1
                /\ SubSeq(buf'[k], 1, Len(buf[k])) = buf[k]
C21_BoundedBuffer == [][C21_Step]_vars

\* a full buffer took a row: the first two messages of the run are gone
C21_Witness ==
  /\ last.op = "message"
  /\ Len(buf[LastKey]) = BUF_MAXLEN
  /\ buf[LastKey][1].mid > 2
  /\ buf[LastKey][BUF_MAXLEN].mid = last.mid

\* the command rules tried before the "show me" rule
BeforeShow ==
  {"SILENT_CMD", "WHO_THIS_RE", "FEEDING_UPDATE_RE", "MANUAL_8PM_RE", "CREATE_PROFILES_RE",
   "UPDATE_PROFILE_RE", "UPDATE_ALL_PROFILES_RE", "FEEDING_CHECK_RE"}

\* an addressed "show me" or "who is" message whose cat does not resolve
ShowOrWhoWithoutCat ==
  /\ last.op = "message"
  /\ Addressed(last.m)
  /\ Hit("SHOW_PAT", LastTextWo) \/ Hit("WHO_PAT", LastTextWo)
  /\ _extract_best_entity(LastTextWo, "cat", FALSE, last.m, nlp_loaded) = None

\* a none event of confidence 0, and nothing else: no handler call, no log
\* line, no pending entry
Suppressed ==
  /\ last.ev.type = "none" /\ last.ev.conf = 0
  /\ last.calls = <<>> /\ last.logs = <<>>
  /\ pending_cv[LastKey] = NoPendingCv /\ pending_feed[LastKey] = NoPendingFeed

\* C22 as stated: every addressed message that matches the "show me" or the
\* "who is" pattern and whose cat does not resolve returns none with
\* confidence 0 and reaches no other rule
C22_AsStated == ShowOrWhoWithoutCat => Suppressed

\* C22: an addressed message that matches the "show me" or the "who is"
\* pattern, matches none of the command rules tried before them, and whose
\* cat does not resolve returns none with confidence 0 and reaches no later
\* rule, also when it has a feed verb and a station in a feeding channel
C22_NoCatSuppresses ==
  (ShowOrWhoWithoutCat /\ \A re \in BeforeShow : ~Hit(re, LastTextWo)) => Suppressed

\* "show me" with a feed verb and a station in #feeding-team
C22_Witness ==
  /\ last.op = "message"
  /\ last.m.text = "tomcat show me i fed hop"
  /\ last.m.ch = ch_feeding_team
  /\ Hit("FEED_VERB", LastText)
  /\ Stations(LastText) # <<>>
  /\ last.ev.type = "none"
  /\ last.calls = <<>>

\* the intent types of the wake-gated rules
WakeGatedTypes ==
  {"silent_mode", "show_photo", "who_is", "cv_identify", "cv_detect", "cv_crop",
   "feeding_status", "manual_8pm"} \cup ProfileHandlers

\* the message just handled has no wake word prefix, does not mention the bot
\* and is not a direct message
LastUnaddressed ==
  /\ last.op = "message"
  /\ ~Hit("TOMCAT_PREFIX", LastText)
  /\ ~BOT_MENTION_RE(last.m.text)
  /\ ~_is_dm(last.m.ch)

\* C23: a message that is not addressed to the bot yields no intent of a
\* wake-gated type and registers no pending CV entry
C23_WakeGated ==
  LastUnaddressed =>
    /\ last.ev.type \notin WakeGatedTypes
    /\ "cv_pending_set" \notin Range(last.logs)
    /\ \A k \in Keys : pending_cv[k] = NoPendingCv

\* the administrator writes a bare vision command, without image, in #general
C23_Witness ==
  /\ LastUnaddressed
  /\ last.m.text = "identify" /\ ~last.m.img /\ last.m.user = 1 /\ last.m.ch = ch_general
  /\ last.ev.type = "none"
  /\ last.calls = <<>>

\* some row of an earlier message in the channel of the last message matches
\* the sub-request verb pattern
EarlierSubRequestRow ==
  \E key \in Keys :
    /\ key[1] = last.m.ch
    /\ \E i \in DOMAIN buf[key] : buf[key][i].mid # last.mid /\ Hit("SUB_VERB", buf[key][i].text)

\* C24: a message is classified sub_accept only in a feeding channel, only
\* when it matches the accept pattern, and only as a reply (confidence 0.9)
\* or, when it is no reply, with a row in the buffers of its channel that
\* matches the sub-request pattern (confidence 0.8)
C24_AcceptNeedsContext ==
  (last.op = "message" /\ last.ev.type = "sub_accept") =>
    /\ last.m.ch \in feed_ids
    /\ Hit("ACCEPT_PAT", LastText)
    /\ \/ last.m.ref /\ last.ev.conf = 90
       \/ ~last.m.ref /\ last.ev.conf = 80 /\ EarlierSubRequestRow

\* "sure" without a reply, after the request of another user in the channel
C24_Witness ==
  /\ last.op = "message"
  /\ last.m.text = "sure" /\ ~last.m.ref /\ last.m.ch = ch_feeding_team
  /\ last.ev.type = "sub_accept" /\ last.ev.conf = 80
  /\ buf[<<ch_feeding_team, 2>>] # <<>>
  /\ \A i \in DOMAIN buf[LastKey] : ~Hit("SUB_VERB", buf[LastKey][i].text)

\* the open requests of channel ch in the ledger
OpenIn(ch) == {i \in DOMAIN subs : subs[i].ch = ch /\ subs[i].status = "requested"}

\* the sub_accept handler ran in this step, for user u in channel ch: the
\* newest open request of the channel, if there is one, is now accepted by u,
\* a sub_accept row is appended and no other row differs
AcceptedNewest(ch, u) ==
  IF OpenIn(ch) = {} THEN subs' = subs
  ELSE LET j == CHOOSE i \in OpenIn(ch) : \A k \in OpenIn(ch) : i >= k
       IN /\ Len(subs') = Len(subs) + 1
          /\ subs'[j].status = "accepted"
          /\ subs'[j].assignee = u
          /\ \A i \in DOMAIN subs : i # j => subs'[i] = subs[i]
          /\ subs'[Len(subs')].kind = "sub_accept"

\* C25: no step removes a record from the sub ledger or turns an accepted
\* record back to requested; a sub_accept changes at most one record, the
\* newest requested record of the event's channel, which becomes accepted
\* with the accepting user as assignee, and changes none when there is none
C25_Step ==
  /\ Len(subs') >= Len(subs)
  /\ \A i \in DOMAIN subs :
       /\ subs'[i].kind = subs[i].kind /\ subs'[i].id = subs[i].id
       /\ subs'[i].requester = subs[i].requester /\ subs'[i].ch = subs[i].ch
       /\ subs[i].status = "accepted" => subs'[i].status = "accepted" /\ subs'[i].assignee = subs[i].assignee
  /\ (nmsg' = nmsg + 1 /\ last'.op = "message" /\ last'.ev.type = "sub_accept" /\ last'.calls # <<>>)
       => AcceptedNewest(last'.m.ch, last'.m.user)
  /\ (nmsg' = nmsg + 1 /\ last'.op = "message" /\ last'.ev.type \notin {"sub_accept", "sub_request"})
       => subs' = subs
C25_Ledger == [][C25_Step]_vars

\* two requests in one channel, the newer one accepted, the older one still open
C25_Witness ==
  /\ Len(subs) = 3
  /\ subs[1].status = "requested" /\ subs[2].status = "accepted" /\ subs[2].assignee = 1
  /\ subs[1].ch = subs[2].ch
  /\ subs[3].kind = "sub_accept"

\* the message of this step names a station and has no feed verb
StationWithoutVerb ==
  /\ nmsg' = nmsg + 1 /\ last'.op = "message"
  /\ StationsOrBest(Norm(last'.m.text), last'.m, nlp_loaded) # <<>>
  /\ ~Hit("FEED_VERB", Norm(last'.m.text))

\* step 0 takes the image of message m: a live pending request, or a recent
\* station mention of its user in #feeding-team
Step0Takes(m) ==
  /\ m.img
  /\ \/ LivePendingCv(m, pending_cv, now)
     \/ /\ m.ch = ch_feeding_team
        /\ \/ /\ pending_feed[<<m.ch, m.user>>] # NoPendingFeed
              /\ now <= pending_feed[<<m.ch, m.user>>].expires
           \/ _feed_events_from_recent_station_mention(buf, <<m.ch, m.user>>, now, nlp_loaded) # <<>>

\* the message ids of the images that the user of m sent in its channel within
\* the lookback minutes
ImagesInLookback(m) ==
  {r.mid : r \in {buf[<<m.ch, m.user>>][i] : i \in {j \in DOMAIN buf[<<m.ch, m.user>>] :
       /\ buf[<<m.ch, m.user>>][j].img
       /\ now - buf[<<m.ch, m.user>>][j].ts <= 60 * feed_lookback_minutes_before}}}

\* the outcome in a feeding channel: image evidence or a pending entry.  list:
\* the stations named; imgs: the images of the user within the lookback
EvidenceOrPending(m, list, imgs) ==
  IF m.img THEN last'.ev.type = "feed_update" /\ last'.ev.conf = 90 /\ last'.ev.stations = list
  ELSE IF imgs # {}
    THEN /\ last'.ev.type = "feed_update" /\ last'.ev.conf = 85 /\ last'.ev.stations = list
         /\ \E i \in imgs : last'.ev.paired = <<i>>
  ELSE /\ last'.ev.type = "none"
       /\ pending_feed'[<<m.ch, m.user>>].stations = list
       /\ pending_feed'[<<m.ch, m.user>>].mid = nmsg + 1

\* C26 as stated: in a feeding channel every message that names a station and
\* has no feed verb is a feed_update of confidence 0.9 with its own image, of
\* confidence 0.85 with an image of its user in the channel within the
\* lookback minutes, and otherwise none with a pending feed entry; outside
\* the feeding channels it is never a feed_update and registers nothing
C26_StepAsStated ==
  StationWithoutVerb =>
    IF last'.m.ch \in feed_ids
    THEN EvidenceOrPending(last'.m, StationsOrBest(Norm(last'.m.text), last'.m, nlp_loaded),
                           ImagesInLookback(last'.m))
    ELSE /\ last'.ev.type # "feed_update"
         /\ pending_feed' = pending_feed /\ pending_cv' = pending_cv
C26_AsStated == [][C26_StepAsStated]_vars

\* C26: the same for a message that reaches the station rule (step 0 does
\* not take its image, no command rule and no sub-request rule takes it);
\* outside the feeding channels such a message registers nothing and is a
\* feed_update only by the NLP fallback, which needs a loaded model, an
\* addressed message and a feed_update prediction of at least CONF_MID
C26_Step ==
  (StationWithoutVerb /\ ~Step0Takes(last'.m) /\ ~ConsumedEarlier(last'.m)) =>
    IF last'.m.ch \in feed_ids
    THEN EvidenceOrPending(last'.m, StationsOrBest(Norm(last'.m.text), last'.m, nlp_loaded),
                           ImagesInLookback(last'.m))
    ELSE /\ pending_feed' = pending_feed /\ pending_cv' = pending_cv
         /\ last'.ev.type = "feed_update" =>
              /\ nlp_loaded /\ Addressed(last'.m)
              /\ last'.m.nlp[1] = "feed_update" /\ last'.m.nlp[2] >= CONF_MID
C26_StationNeedsEvidence == [][C26_Step]_vars

\* "mike" in #feeding-team, paired with the image its user sent before
C26_Witness ==
  /\ last.op = "message"
  /\ last.m = Plain(ch_feeding_team, 1, "mike", FALSE)
  /\ last.ev.type = "feed_update" /\ last.ev.conf = 85
  /\ last.ev.paired # <<>>
  /\ buf[<<ch_feeding_team, 2>>] # <<>>

\* the positions, in the buffer of the sender of m, of the image rows that are
\* no older than the CV lookback window
ImageRowsInWindow(m) ==
  {i \in DOMAIN buf[<<m.ch, m.user>>] :
     /\ buf[<<m.ch, m.user>>][i].img
     /\ now - buf[<<m.ch, m.user>>][i].ts <= cv_lookback_seconds_before}

\* the message of this step is a vision event without own attachment or reply
BareVisionEvent ==
  /\ nmsg' = nmsg + 1 /\ last'.op = "message"
  /\ last'.ev # NoEvent /\ last'.ev.type \in VisionHandlers
  /\ ~last'.m.img /\ ~last'.m.ref

\* C27: a vision command without attachment and without reply reference is
\* paired with the newest image row of its own (channel, user) buffer that is
\* within the lookback window, and paired_messages holds that row's id; with
\* no such row (only images of another user, of another channel, or older
\* ones) there is no vision event
C27_Step ==
  BareVisionEvent =>
    \E i \in ImageRowsInWindow(last'.m) :
      /\ \A j \in ImageRowsInWindow(last'.m) : j <= i
      /\ last'.ev.paired = <<buf[<<last'.m.ch, last'.m.user>>][i].mid>>
C27_PairsOwnRecentImage == [][C27_Step]_vars

\* user 1 sends an image, user 2 sends a newer one, user 1 asks to identify
C27_Witness ==
  /\ last.op = "message" /\ last.m.text = "TomCat, identify" /\ ~last.m.img
  /\ last.ev.type = "cv_identify"
  /\ last.ev.paired = <<1>>
  /\ buf[<<ch_general, 2>>] # <<>>

\* the text probed is "on <weekday>" and p is its phrase
OnPhraseDone(p) == probe.fn = "dates" /\ probe.done /\ probe.text = p[1]

\* C28 as stated: "on <weekday>" yields the most recent day at or before today
\* that falls on the weekday: 0 to 6 days back, today when today is that day
C28_AsStated ==
  \A p \in OnPhrases : OnPhraseDone(p) =>
    \E d \in Range(probe.dates) : Weekday(d) = p[2] /\ probe.today - d \in 0..6

\* C28: "on <weekday>" yields the most recent day before today that falls on
\* the weekday: 1 to 7 days back, 7 when today is that weekday, and neither
\* today nor an earlier day is in the result
C28_OnWeekdayBeforeToday ==
  \A p \in OnPhrases : OnPhraseDone(p) =>
    /\ \E d \in Range(probe.dates) : Weekday(d) = p[2] /\ probe.today - d \in 1..7
    /\ \A d \in Range(probe.dates) : d <= probe.today => probe.today - d \in 1..7
    /\ Weekday(probe.today) = p[2] => probe.today - 7 \in Range(probe.dates)

\* "on fri" on a Friday: the Friday a week ago
C28_Witness ==
  /\ probe.fn = "dates" /\ probe.done /\ probe.text = "on fri"
  /\ Weekday(probe.today) = 4
  /\ probe.today - 7 \in Range(probe.dates) /\ probe.today \notin Range(probe.dates)

\* the table a prefix probe asks for
TableOf(want) == IF want = "cat" THEN _CAT_ALIASES ELSE _STATION_ALIASES

\* the entries of the table that have an alias word starting with tok
EntriesWithPrefix(table, tok) ==
  {i \in DOMAIN table : \E v \in table[i].vals : \E t \in Range(_words(v)) : StartsWith(t, tok)}

\* the entries hit by a token of the text, of length 3 or more, that is a
\* prefix of alias words of that entry and of no other
UniquelyHit(table, text) ==
  {i \in DOMAIN table : \E tok \in Range(_words(_normalize(text))) :
     Len(tok) >= 3 /\ EntriesWithPrefix(table, tok) = {i}}

\* no alias of the table is a whole word of the text
NoWholeWord(table, text) ==
  \A i \in DOMAIN table : \A v \in table[i].vals : ~WholeWord(_normalize(text), v)

\* what the prefix pass has to return, given the entries uniquely hit
PrefixOutcome(table, hit, out) ==
  IF Cardinality(hit) = 1 THEN \E i \in hit : out = _DISPLAY(table[i].key) ELSE out = None

\* C29: when no alias is a whole word of the text, the resolver returns the
\* name of the one entry that tokens of length 3 or more hit uniquely, and
\* no match when no entry or more than one entry is hit that way
C29_UniquePrefix ==
  (probe.fn = "prefix" /\ probe.done /\ NoWholeWord(TableOf(probe.name), probe.text))
    => PrefixOutcome(TableOf(probe.name), UniquelyHit(TableOf(probe.name), probe.text), probe.out)

\* "mai sni": Maintenance and Snickers are both hit, nothing is returned
C29_Witness ==
  /\ probe.fn = "prefix" /\ probe.done /\ probe.text = "mai sni"
  /\ Cardinality(UniquelyHit(_STATION_ALIASES, probe.text)) = 2
  /\ probe.out = None

\* the message of this step is an addressed silent-mode command
SilentCommandStep ==
  /\ nmsg' = nmsg + 1 /\ last'.op = "message"
  /\ Addressed(last'.m) /\ Hit("SILENT_CMD", Norm(last'.m.text))

\* C30: while silent mode is on, the administrator's addressed "silent mode
\* off" is classified silent_mode and turns the flag off; a silent-mode
\* command of a user who is not an administrator leaves the flag as it was
C30_Step ==
  SilentCommandStep =>
    IF last'.m.user = 1
    THEN (silent_mode /\ last'.m.text = "tomcat silent mode off") =>
           /\ last'.ev # NoEvent /\ last'.ev.type = "silent_mode"
           /\ ~silent_mode'
    ELSE silent_mode' = silent_mode
C30_SilentModeOff == [][C30_Step]_vars

\* the message of this step carries an image while its sender has a live
\* pending feed entry in the channel, a feeding channel, and no pending
\* vision request that would take the image first
ImageMeetsPendingFeed ==
  /\ nmsg' = nmsg + 1 /\ last'.op = "message" /\ last'.m.img
  /\ last'.m.ch \in feed_ids
  /\ pending_feed[<<last'.m.ch, last'.m.user>>] # NoPendingFeed
  /\ now <= pending_feed[<<last'.m.ch, last'.m.user>>].expires
  /\ ~LivePendingCv(last'.m, pending_cv, now)

\* C31: in every feeding channel, the allow-listed ones included, the next
\* image of the user at or before expiry fulfils the pending feed entry: one
\* feed_update call per pending station, and the entry is removed
C31_Step ==
  ImageMeetsPendingFeed =>
    /\ Len(last'.calls) = Len(pending_feed[<<last'.m.ch, last'.m.user>>].stations)
    /\ \A i \in DOMAIN last'.calls :
         /\ last'.calls[i].h = "feed_update"
         /\ last'.calls[i].ev.station = pending_feed[<<last'.m.ch, last'.m.user>>].stations[i]
    /\ pending_feed'[<<last'.m.ch, last'.m.user>>] = NoPendingFeed
C31_PendingFeedFulfilled == [][C31_Step]_vars

\* the message before this step fulfilled a pending feed entry, and this step
\* is a further image of the same user in the same channel
ImageAfterFulfilment ==
  /\ last.op = "message" /\ "feed_pending_fulfilled" \in Range(last.logs)
  /\ nmsg' = nmsg + 1 /\ last'.op = "message" /\ last'.m.img
  /\ last'.m.ch = last.m.ch /\ last'.m.user = last.m.user

\* C32: once an image has fulfilled a pending feed entry, a further image of
\* the same user in the same channel causes no feed_update call
C32_Step == ImageAfterFulfilment => \A i \in DOMAIN last'.calls : last'.calls[i].h # "feed_update"
C32_FulfilledOnce == [][C32_Step]_vars

\* C33: a channel that the analysis treats as a feeding channel is never
\* blocked by the channel gate of the feed-update handler
C33_GateAcceptsFeedingChannels ==
  (probe.fn = "gate" /\ probe.done /\ probe.out[1]) => ~probe.out[2]

\* the last message matched the sub-request pattern in a feeding channel and no
\* addressed command rule took it
SubRequestInFeeding ==
  /\ last.op = "message" /\ last.m.ch \in feed_ids
  /\ SubRequestPattern(last.m) /\ ~TakenByCommand(last.m)

\* C34: in a feeding channel every message that matches the sub-request
\* pattern is a sub_request, of confidence 0.9 when a station and a date were
\* extracted and 0.75 otherwise, also when the text names no station
C34_SubRequestAlways ==
  SubRequestInFeeding =>
    /\ last.ev # NoEvent /\ last.ev.type = "sub_request"
    /\ last.ev.conf = SubConf(_extract_all_entities(LastText), Dates(LastText, LastToday))

\* C36: no two sub-request records of the ledger have the same id, the
\* records of one request for several stations included
C36_DistinctSubIds ==
  \A i, j \in DOMAIN subs :
    (subs[i].kind = "sub_request" /\ subs[j].kind = "sub_request" /\ subs[i].id = subs[j].id)
      => i = j

\* C39: for a text whose station words are aliases of the stations of S and
\* whose other words are connectives, resolve_stations returns exactly S
C39_ExactlyTheNamedStations ==
  \A p \in StationSetTexts :
    (probe.fn = "stations" /\ probe.done /\ probe.text = p[1]) => Range(probe.out) = p[2]

\* C38: a task whose mailbox query returned at least one message eventually
\* finishes logging the batch and has released the e-mail log lock
C38_BatchFinishes ==
  \A p \in MailProcs :
    (mail.pc[p] = "calling") ~> (mail.pc[p] = "idle" /\ mail.holder # p)

\* C35: when handle_message has finished for a message, the decision-trace
\* map has no entry for the id of that message
C35_Step == (nmsg' = nmsg + 1 /\ last'.op = "message") => (nmsg + 1) \notin traces'
C35_NoTraceLeft == [][C35_Step]_vars

\* confidences of the feed_update events of the last message: the event the
\* classifier returned and the events handed to the feed handler
FeedUpdateConfs ==
  {last.ev.conf : x \in {y \in {1} : last.op = "message" /\ last.ev.type = "feed_update"}}
    \cup {last.calls[i].ev.conf : i \in {j \in DOMAIN last.calls :
            last.op = "message" /\ last.calls[j].h = "feed_update"}}

\* C37: every feed_update event the router produces for a message, from the
\* classifier, from a fulfilled pending feed or from pairing an image with a
\* recent station mention, has confidence at least 0.8, hence not below the
\* clarification threshold CONF_MID
C37_FeedConfidenceFloor == \A c \in FeedUpdateConfs : c >= 80 /\ c >= CONF_MID

\* an image paired with a recent station mention reached the feed handler
C37_Witness ==
  /\ last.op = "message" /\ "feed_pair_recent" \in Range(last.logs)
  /\ \E i \in DOMAIN last.calls : last.calls[i].h = "feed_update" /\ last.calls[i].ev.conf = 90

====
